---- MODULE Spec2Model ----
(***************************************************************************)
(* Model of the static-site build of marshallku/blog: the Build Cache      *)
(* (src/src/cache.rs), the sequential build (build_all) and the parallel   *)
(* build (build_all_parallel, process_post_parallel) of                    *)
(* crates/ssg/src/main.rs, category discovery (src/src/category.rs) and    *)
(* the listings generated from the Metadata Index (sitemap.rs, recent.rs,  *)
(* feeds.rs), the renderer's path resolution and component substitution    *)
(* (src/src/renderer.rs), the index pages and their pagination             *)
(* (src/src/indices.rs), post navigation (navigation.rs) and the like      *)
(* collection of the companion API (crates/backend/src/models/like.rs).    *)
(***************************************************************************)
EXTENDS Integers, Sequences, FiniteSets, TLC

(***************************************************************************)
(* Bounds                                                                  *)
(***************************************************************************)
NumThreads == 2
MaxEdits == 1
MaxBuilds == 2

(***************************************************************************)
(* The corpus: content/posts/<category>/<slug>.md, in WalkDir order.       *)
(***************************************************************************)
FilePaths == <<"dev/a", "dev/b", "work/apps/c">>
Paths == {FilePaths[i] : i \in 1..Len(FilePaths)}
Workers == 1..NumThreads

\* A file's bytes, abstracted to what the build observes of them.
Visible1 == 1      \* valid front matter, hidden: false
HiddenDoc == 2     \* valid front matter, hidden: true
Malformed == 3     \* front matter that fails to parse
BadShortcode == 4  \* parses, but shortcode processing / rendering fails
Visible2 == 5      \* Visible1 with a modified body
Contents == {Visible1, HiddenDoc, Malformed, BadShortcode, Visible2}
Deleted == 6       \* the file has been removed from the corpus

\* WalkDir::new(posts_dir): the markdown files that exist, in walk order.
WalkDir(fs) == SelectSeq(FilePaths, LAMBDA p : fs[p] # Deleted)
BrokenTemplates == 3   \* a template tree the template engine fails to load
Templates == {1, 2, BrokenTemplates}

NoEntry == [file_hash |-> 0, template_hash |-> 0, output_path |-> "none"]
NoOutput == [content |-> 0, tmpl |-> 0]
NoPath == "none"

(***************************************************************************)
(* Parser (crates/ssg/src/parser.rs)                                       *)
(***************************************************************************)
\* extract_category: the path segments between posts/ and the file.
extract_category(p) ==
  CASE p = "dev/a" -> "dev"
    [] p = "dev/b" -> "dev"
    [] p = "work/apps/c" -> "work/apps"

\* path_to_slug: the file stem.
path_to_slug(p) ==
  CASE p = "dev/a" -> "a"
    [] p = "dev/b" -> "b"
    [] p = "work/apps/c" -> "c"

\* parse_file fails on malformed front matter.
ParseOk(c) == c # Malformed

\* The front matter of a parsed document.
parse_frontmatter(c) == [hidden |-> (c = HiddenDoc), src |-> c]

\* shortcode_registry.process and render_markdown_with_components_and_images
\* and generate_post succeed or fail on the document's content.
RenderOk(c) == c # BadShortcode

\* Generator::new loads the template tree and fails when it cannot.
GeneratorOk(t) == t # BrokenTemplates

\* hash_file: the fingerprint of the file's bytes (collision free).
hash_file(c) == 10 + c

\* hash_directory: the fingerprint of the template tree.
hash_directory(t) == 20 + t

(***************************************************************************)
(* Categories (src/src/category.rs)                                        *)
(***************************************************************************)
\* The category directories of the corpus.
Categories == <<"dev", "work", "work/apps">>
CategorySet == {Categories[i] : i \in 1..Len(Categories)}

\* A deeper tree of category directories, for discover_categories on its own.
CategoryDirs == <<"dev", "work", "work/apps", "work/apps/ios", "work/web">>
CategoryDirSet == {CategoryDirs[i] : i \in 1..Len(CategoryDirs)}

\* A directory's .category.yaml: absent, or with hidden: false or hidden: true.
YamlValues == {"absent", "false", "true"}

\* The corpus has one .category.yaml: work is hidden.
CategoryYamlFixture ==
  [c \in CategoryDirSet |-> IF c = "work" THEN "true" ELSE "absent"]

\* hidden: as declared in the category's .category.yaml (false when absent).
DeclaredHidden(yaml, c) == yaml[c] = "true"

\* The parent directory's category, "" at the top level.
ParentOf(c) ==
  CASE c = "work/apps" -> "work"
    [] c = "work/web" -> "work"
    [] c = "work/apps/ios" -> "work/apps"
    [] OTHER -> ""

\* load_category_metadata: hidden is inherited from the parent, whose own
\* value was computed the same way by the enclosing recursive call.
RECURSIVE load_category_hidden(_, _)
load_category_hidden(yaml, c) ==
  IF ParentOf(c) = "" THEN DeclaredHidden(yaml, c)
  ELSE LET parentHidden == load_category_hidden(yaml, ParentOf(c))
       IN IF parentHidden /\ ~DeclaredHidden(yaml, c) THEN TRUE
          ELSE DeclaredHidden(yaml, c)

discover_categories_declared_parent(dirs, yaml) ==
  [i \in 1..Len(dirs) |->
     [slug |-> dirs[i],
      hidden |-> \/ DeclaredHidden(yaml, dirs[i])
                 \/ ParentOf(dirs[i]) # "" /\ DeclaredHidden(yaml, ParentOf(dirs[i]))]]

\* discover_categories: every directory's category, loaded with its parent's.
discover_categories(dirs, yaml) ==
  [i \in 1..Len(dirs) |->
     [slug |-> dirs[i], hidden |-> load_category_hidden(yaml, dirs[i])]]

(***************************************************************************)
(* Build Cache (src/src/cache.rs)                                          *)
(***************************************************************************)
BuildCache_new == [p \in Paths |-> NoEntry]

needs_rebuild_only_checks_presence(entries, path, current_hash, template_hash) ==
  entries[path] = NoEntry

needs_rebuild_checks_template(entries, path, current_hash, template_hash) ==
  \/ entries[path] = NoEntry
  \/ entries[path].file_hash # current_hash
  \/ entries[path].template_hash # template_hash

\* needs_rebuild: the template fingerprint the caller passes does not take
\* part in the decision.
needs_rebuild(entries, path, current_hash, template_hash) ==
  IF entries[path] = NoEntry THEN TRUE
  ELSE entries[path].file_hash # current_hash

update_entry(entries, path, hash, template_hash, output) ==
  [entries EXCEPT ![path] =
     [file_hash |-> hash, template_hash |-> template_hash, output_path |-> output]]

(***************************************************************************)
(* Metadata Index                                                          *)
(***************************************************************************)
PostMetadata(p, fm) ==
  [slug |-> path_to_slug(p), category |-> extract_category(p), frontmatter |-> fm]

SameKey(m, slug, category) == m.slug = slug /\ m.category = category

upsert_post_always_appends(posts, slug, category, fm) ==
  Append(posts, [slug |-> slug, category |-> category, frontmatter |-> fm])

\* upsert_post: replaces the entry with the same slug and category, or appends.
upsert_post(posts, slug, category, fm) ==
  IF \E i \in 1..Len(posts) : SameKey(posts[i], slug, category)
  THEN [i \in 1..Len(posts) |->
          IF SameKey(posts[i], slug, category)
          THEN [slug |-> slug, category |-> category, frontmatter |-> fm]
          ELSE posts[i]]
  ELSE Append(posts, [slug |-> slug, category |-> category, frontmatter |-> fm])

HasPost(posts, p) ==
  \E i \in 1..Len(posts) : SameKey(posts[i], path_to_slug(p), extract_category(p))

(***************************************************************************)
(* Listings generated from the Metadata Index                              *)
(***************************************************************************)
PostUrl(category, slug) == <<category, slug>>
UrlOfPath(p) == PostUrl(extract_category(p), path_to_slug(p))

\* SitemapGenerator::add_posts: every post of the index that is not hidden.
add_posts(posts) ==
  {PostUrl(posts[i].category, posts[i].slug) :
     i \in {j \in 1..Len(posts) : ~posts[j].frontmatter.hidden}}

\* SitemapGenerator::add_categories: the index URL of every category that is
\* not hidden.
add_categories(category_info) ==
  {category_info[i].slug :
     i \in {j \in 1..Len(category_info) : ~category_info[j].hidden}}

\* RecentGenerator::generate: the most recent posts that are not hidden
\* (RECENT_POSTS_COUNT = 6 exceeds the corpus, so none is cut off).
recent_generate(posts) ==
  {PostUrl(posts[i].category, posts[i].slug) :
     i \in {j \in 1..Len(posts) : ~posts[j].frontmatter.hidden}}

\* FeedGenerator::generate_global_feed: get_recent_posts(10) without the
\* hidden ones.
generate_global_feed(posts) ==
  {PostUrl(posts[i].category, posts[i].slug) :
     i \in {j \in 1..Len(posts) : ~posts[j].frontmatter.hidden}}

NoArtifacts ==
  [sitemap_posts |-> {}, sitemap_categories |-> {}, recent |-> {}, feed |-> {}]

(***************************************************************************)
(* Build results (BuildResult, SkipReason)                                 *)
(***************************************************************************)
Success(p, fm, fh, th) ==
  [kind |-> "Success", path |-> p, reason |-> "", frontmatter |-> fm,
   file_hash |-> fh, template_hash |-> th, output_path |-> p]
Skipped(p, reason) ==
  [kind |-> "Skipped", path |-> p, reason |-> reason,
   frontmatter |-> [hidden |-> FALSE, src |-> 0],
   file_hash |-> 0, template_hash |-> 0, output_path |-> NoPath]
Error(p) ==
  [kind |-> "Error", path |-> p, reason |-> "",
   frontmatter |-> [hidden |-> FALSE, src |-> 0],
   file_hash |-> 0, template_hash |-> 0, output_path |-> NoPath]

(***************************************************************************)
(* State                                                                   *)
(***************************************************************************)
VARIABLES
  files,            \* content of each source file
  tmpl,             \* content of the templates directory
  diskCache,        \* .build-cache/cache.json (empty when the file is absent)
  diskMeta,         \* the persisted Metadata Index: its posts
  output,           \* dist/<category>/<slug>/index.html: what it was built from
  artifacts,        \* sitemap.xml, recent.json, feed.xml
  category_yaml,    \* the .category.yaml of each category directory
  post_process,     \* a call of Renderer::post_process_components
  resolve,          \* a call of Renderer::resolve_path
  indices,          \* a run of IndexGenerator and SitemapGenerator on an index
  navigation,       \* a call of build_post_navigation
  pagination,       \* a call of IndexGenerator::build_pagination_context
  likes,            \* the like collection of the companion web API
  toggles,          \* the Like::toggle requests in progress
  pc,               \* position of the build command
  use_cache,        \* --incremental
  parallel,         \* --parallel
  template_hash,    \* hash_directory("templates") of this build
  cache,            \* the build's BuildCache entries
  cacheLock,        \* holder of the Mutex<BuildCache>: 0 when free
  metadata,         \* the build's MetadataCache posts
  category_info,    \* the build's MetadataCache category_info
  metadata_for_nav, \* the snapshot workers read
  idx,              \* loop index of the orchestrating thread
  work_queue,       \* paths enqueued and not yet received
  results,          \* per-file outcomes in the order they were reported
  errors,           \* the errors collected by the merge loop
  wpc,              \* position of each worker
  wpath,            \* the path a worker is processing
  edits,            \* number of source edits so far
  builds,           \* number of builds started so far
  prev              \* the previous build: mode, exit status, built posts, inputs

vars == <<files, tmpl, diskCache, diskMeta, output, artifacts, category_yaml,
          post_process, resolve, indices, navigation, pagination, likes,
          toggles, pc, use_cache,
          parallel, template_hash, cache, cacheLock, metadata, category_info,
          metadata_for_nav, idx, work_queue, results, errors, wpc, wpath,
          edits, builds, prev>>

diskVars == <<files, tmpl, diskCache, diskMeta, output, artifacts, category_yaml>>
workerVars == <<wpc, wpath, work_queue, cacheLock>>
histVars == <<edits, builds, prev>>
rendererVars == <<post_process, resolve>>
listingVars == <<indices, navigation, pagination>>
backendVars == <<likes, toggles>>

NoPrev == [incremental |-> FALSE, ok |-> FALSE, built |-> {}, files |-> <<>>, tmpl |-> 0]

\* The corpora a run starts from.
InitCorpora ==
  { [p \in Paths |-> Visible1],
    [p \in Paths |-> IF p = "dev/b" THEN Malformed ELSE Visible1],
    [p \in Paths |-> IF p = "dev/a" THEN HiddenDoc ELSE Visible1] }

\* Everything but the category declarations.
InitBuild ==
  /\ files \in InitCorpora
  /\ diskCache = BuildCache_new
  /\ diskMeta = <<>>
  /\ output = [p \in Paths |-> NoOutput]
  /\ artifacts = NoArtifacts
  /\ pc = "idle"
  /\ use_cache = FALSE
  /\ parallel = FALSE
  /\ template_hash = 0
  /\ cache = BuildCache_new
  /\ cacheLock = 0
  /\ metadata = <<>>
  /\ category_info = <<>>
  /\ metadata_for_nav = <<>>
  /\ idx = 0
  /\ work_queue = <<>>
  /\ results = <<>>
  /\ errors = {}
  /\ wpc = [w \in Workers |-> "none"]
  /\ wpath = [w \in Workers |-> NoPath]
  /\ edits = 0
  /\ builds = 0
  /\ prev = NoPrev

\* No listing is being generated and the web API is at rest.
NoIndices ==
  [posts |-> <<>>, posts_per_page |-> 0, written |-> {}, sitemap |-> {}, done |-> FALSE]
NoNavigation ==
  [posts |-> <<>>, current_slug |-> "", current_category |-> "",
   same_category |-> FALSE, prev |-> [slug |-> "", category |-> ""],
   next |-> [slug |-> "", category |-> ""], done |-> FALSE]
NoPagination ==
  [current_page |-> 0, total_posts |-> 0, posts_per_page |-> 0, window |-> 0,
   pages |-> <<>>, done |-> FALSE]
NoListing ==
  /\ indices = NoIndices
  /\ navigation = NoNavigation
  /\ pagination = NoPagination
NoBackend ==
  /\ likes = <<>>
  /\ toggles = <<>>

\* No call of the renderer is being looked at.
NoPostProcess == [html |-> <<>>, components |-> <<>>, result |-> <<>>, done |-> FALSE]
NoResolve == [path |-> <<>>, base_path |-> <<>>, result |-> <<>>, done |-> FALSE]

Init ==
  /\ InitBuild
  /\ NoListing
  /\ NoBackend
  /\ tmpl = 1
  /\ category_yaml = CategoryYamlFixture
  /\ post_process = NoPostProcess
  /\ resolve = NoResolve

Idle == pc \in {"idle", "done", "failed", "post_done", "post_failed"}

(***************************************************************************)
(* The author edits the sources between builds                             *)
(***************************************************************************)
EditFile ==
  /\ Idle
  /\ edits < MaxEdits
  /\ \E p \in Paths, c \in Contents :
       /\ c # files[p]
       /\ files' = [files EXCEPT ![p] = c]
  /\ edits' = edits + 1
  /\ pc' = "idle"
  /\ UNCHANGED <<tmpl, diskCache, diskMeta, output, artifacts, category_yaml, rendererVars, listingVars, backendVars, use_cache, parallel,
                 template_hash, cache, cacheLock, metadata, category_info,
                 metadata_for_nav, idx, work_queue, results, errors, wpc, wpath,
                 builds, prev>>

EditTemplate ==
  /\ Idle
  /\ edits < MaxEdits
  /\ \E t \in Templates :
       /\ t # tmpl
       /\ tmpl' = t
  /\ edits' = edits + 1
  /\ pc' = "idle"
  /\ UNCHANGED <<files, diskCache, diskMeta, output, artifacts, category_yaml, rendererVars, listingVars, backendVars, use_cache, parallel,
                 template_hash, cache, cacheLock, metadata, category_info,
                 metadata_for_nav, idx, work_queue, results, errors, wpc, wpath,
                 builds, prev>>

(***************************************************************************)
(* Outcomes of the build in progress                                       *)
(***************************************************************************)
ResultsOf(p) == {i \in 1..Len(results) : results[i].path = p}
HasOutcome(p, kind) == \E i \in ResultsOf(p) : results[i].kind = kind
SkippedAs(p, reason) ==
  \E i \in ResultsOf(p) : results[i].kind = "Skipped" /\ results[i].reason = reason
BuiltPosts == {p \in Paths : HasOutcome(p, "Success")}

\* The record the next build is compared with.
ThisBuild(ok) ==
  [incremental |-> use_cache, ok |-> ok, built |-> BuiltPosts,
   files |-> files, tmpl |-> tmpl]

(***************************************************************************)
(* build_all / build_all_parallel: set-up and the sequential pre-pass      *)
(***************************************************************************)
\* main.rs 205-241 and 380-418: load the cache and the metadata, fingerprint
\* the templates, discover the categories and list the corpus.  The
\* sequential build creates its Generator first and fails without it.
StartBuild(uc, par) ==
  /\ Idle
  /\ builds < MaxBuilds
  /\ builds' = builds + 1
  /\ use_cache' = uc
  /\ parallel' = par
  /\ results' = <<>>
  /\ errors' = {}
  /\ work_queue' = <<>>
  /\ wpc' = [w \in Workers |-> "none"]
  /\ wpath' = [w \in Workers |-> NoPath]
  /\ cacheLock' = 0
  /\ metadata_for_nav' = <<>>
  /\ IF ~par /\ ~GeneratorOk(tmpl)
     THEN /\ pc' = "failed"
          /\ prev' = [incremental |-> uc, ok |-> FALSE, built |-> {},
                      files |-> files, tmpl |-> tmpl]
          /\ idx' = 0
          /\ UNCHANGED <<template_hash, cache, metadata, category_info>>
     ELSE /\ pc' = "prepass"
          /\ idx' = 1
          /\ template_hash' = hash_directory(tmpl)
          /\ cache' = IF uc THEN diskCache ELSE BuildCache_new
          /\ metadata' = IF uc THEN diskMeta ELSE <<>>
          /\ category_info' = discover_categories(Categories, category_yaml)
          /\ UNCHANGED prev
  /\ UNCHANGED <<diskVars, rendererVars, listingVars, backendVars, edits>>

PrePassUpsert_skips_first(posts, p, c) ==
  IF ParseOk(c) /\ ~parse_frontmatter(c).hidden /\ p # FilePaths[1]
  THEN upsert_post(posts, path_to_slug(p), extract_category(p), parse_frontmatter(c))
  ELSE posts

\* main.rs 248-253 and 421-426: a document that parses and is not hidden is
\* upserted.
PrePassUpsert(posts, p, c) ==
  IF ParseOk(c) /\ ~parse_frontmatter(c).hidden
  THEN upsert_post(posts, path_to_slug(p), extract_category(p), parse_frontmatter(c))
  ELSE posts

\* One iteration of the pre-pass loop.
PrePass ==
  /\ pc = "prepass"
  /\ idx <= Len(WalkDir(files))
  /\ metadata' = PrePassUpsert(metadata, WalkDir(files)[idx], files[WalkDir(files)[idx]])
  /\ IF idx = Len(WalkDir(files))
     THEN /\ pc' = IF parallel THEN "spawn" ELSE "seqloop"
          /\ idx' = 1
     ELSE /\ pc' = pc
          /\ idx' = idx + 1
  /\ UNCHANGED <<diskVars, rendererVars, listingVars, backendVars, workerVars, histVars, use_cache, parallel, template_hash,
                 cache, category_info, metadata_for_nav, results, errors>>

(***************************************************************************)
(* build_all: the sequential build loop (main.rs 259-331)                  *)
(***************************************************************************)
\* The cache after the loop body has handled file p with content c:
\* update_entry is reached only after generate_post has succeeded.
SeqCacheAfter_caches_hidden(entries, p, c, th) ==
  IF ParseOk(c) /\ (parse_frontmatter(c).hidden \/ RenderOk(c))
  THEN update_entry(entries, p, hash_file(c), th, p)
  ELSE entries

SeqCacheAfter(entries, p, c, th) ==
  IF ParseOk(c) /\ ~parse_frontmatter(c).hidden /\ RenderOk(c)
  THEN update_entry(entries, p, hash_file(c), th, p)
  ELSE entries

SeqStep ==
  /\ pc = "seqloop"
  /\ idx <= Len(WalkDir(files))
  /\ LET p == WalkDir(files)[idx]
         c == files[p]
         file_hash == hash_file(c)
         fm == parse_frontmatter(c)
         next == IF idx = Len(WalkDir(files)) THEN "save" ELSE "seqloop"
     IN IF use_cache /\ ~needs_rebuild(cache, p, file_hash, template_hash)
        THEN \* Skipping (unchanged)
             /\ results' = Append(results, Skipped(p, "Cached"))
             /\ pc' = next
             /\ idx' = idx + 1
             /\ UNCHANGED <<cache, metadata, output, prev>>
        ELSE IF ~ParseOk(c) \/ (~fm.hidden /\ ~RenderOk(c))
        THEN \* the ? operator returns the error from build_all
             /\ results' = Append(results, Error(p))
             /\ pc' = "failed"
             /\ idx' = idx
             /\ cache' = SeqCacheAfter(cache, p, c, template_hash)
             /\ prev' = [incremental |-> use_cache, ok |-> FALSE, built |-> BuiltPosts,
                         files |-> files, tmpl |-> tmpl]
             /\ UNCHANGED <<metadata, output>>
        ELSE IF fm.hidden
        THEN \* Hidden - skipping output
             /\ results' = Append(results, Skipped(p, "Draft"))
             /\ pc' = next
             /\ idx' = idx + 1
             /\ cache' = SeqCacheAfter(cache, p, c, template_hash)
             /\ UNCHANGED <<metadata, output, prev>>
        ELSE /\ output' = [output EXCEPT ![p] = [content |-> c, tmpl |-> tmpl]]
             /\ cache' = SeqCacheAfter(cache, p, c, template_hash)
             /\ metadata' = upsert_post(metadata, path_to_slug(p), extract_category(p), fm)
             /\ results' = Append(results, Success(p, fm, file_hash, template_hash))
             /\ pc' = next
             /\ idx' = idx + 1
             /\ UNCHANGED prev
  /\ UNCHANGED <<files, tmpl, diskCache, diskMeta, artifacts, category_yaml, rendererVars, listingVars, backendVars, workerVars, edits, builds,
                 use_cache, parallel, template_hash, category_info,
                 metadata_for_nav, errors>>

\* main.rs 333-336: the cache is saved by an incremental build only.
SeqSave ==
  /\ pc = "save"
  /\ ~parallel
  /\ diskCache' = IF use_cache THEN cache ELSE diskCache
  /\ diskMeta' = metadata
  /\ pc' = "generate"
  /\ UNCHANGED <<files, tmpl, output, artifacts, category_yaml, rendererVars, listingVars, backendVars, workerVars, histVars, use_cache,
                 parallel, template_hash, cache, metadata, category_info,
                 metadata_for_nav, idx, results, errors>>

\* main.rs 338-377 and 546-588: the listings are generated from the build's
\* metadata.  The parallel build creates its own Generator here.
Generate ==
  /\ pc = "generate"
  /\ IF parallel /\ ~GeneratorOk(tmpl)
     THEN /\ pc' = "failed"
          /\ prev' = ThisBuild(FALSE)
          /\ UNCHANGED artifacts
     ELSE /\ artifacts' = [sitemap_posts |-> add_posts(metadata),
                           sitemap_categories |-> add_categories(category_info),
                           recent |-> recent_generate(metadata),
                           feed |-> generate_global_feed(metadata)]
          /\ pc' = "done"
          /\ prev' = ThisBuild(TRUE)
  /\ UNCHANGED <<files, tmpl, diskCache, diskMeta, output, category_yaml, rendererVars, listingVars, backendVars, workerVars,
                 edits, builds, use_cache, parallel, template_hash, cache, metadata,
                 category_info, metadata_for_nav, idx, results, errors>>

(***************************************************************************)
(* build_all_parallel: the workers (main.rs 454-495, 605-678)              *)
(***************************************************************************)
Running(w) == wpc[w] \notin {"none", "exited"}
AllExited == \A w \in Workers : ~Running(w)

\* main.rs 382 and 429-498: snapshot the metadata, enqueue every path, close
\* the queue and spawn get_thread_count() workers, a number the machine
\* decides.
Spawn ==
  /\ pc = "spawn"
  /\ metadata_for_nav' = metadata
  /\ work_queue' = WalkDir(files)
  /\ \E num_threads \in 1..NumThreads :
       wpc' = [w \in Workers |-> IF w <= num_threads THEN "init" ELSE "none"]
  /\ pc' = "collect"
  /\ UNCHANGED <<diskVars, rendererVars, listingVars, backendVars, histVars, use_cache, parallel, template_hash, cache,
                 cacheLock, metadata, category_info, idx, results, errors, wpath>>

\* main.rs 455-462: a worker without a Generator returns at once.
WorkerInit(w) ==
  /\ wpc[w] = "init"
  /\ wpc' = [wpc EXCEPT ![w] = IF GeneratorOk(tmpl) THEN "recv" ELSE "exited"]
  /\ UNCHANGED <<diskVars, rendererVars, listingVars, backendVars, histVars, pc, use_cache, parallel, template_hash, cache,
                 cacheLock, metadata, category_info, metadata_for_nav, idx,
                 work_queue, results, errors, wpath>>

WorkerRecv_queue_never_closed(w) ==
  /\ wpc[w] = "recv"
  /\ work_queue # <<>>
  /\ wpath' = [wpath EXCEPT ![w] = Head(work_queue)]
  /\ work_queue' = Tail(work_queue)
  /\ wpc' = [wpc EXCEPT ![w] = IF use_cache THEN "lock" ELSE "parse"]
  /\ UNCHANGED <<diskVars, rendererVars, listingVars, backendVars, histVars, pc, use_cache, parallel, template_hash, cache,
                 cacheLock, metadata, category_info, metadata_for_nav, idx,
                 results, errors>>

\* main.rs 464-473 and 606: receive the next path, or leave the loop when the
\* closed queue is empty; then fingerprint the file.
WorkerRecv(w) ==
  /\ wpc[w] = "recv"
  /\ IF work_queue = <<>>
     THEN /\ wpc' = [wpc EXCEPT ![w] = "exited"]
          /\ wpath' = [wpath EXCEPT ![w] = NoPath]
          /\ UNCHANGED work_queue
     ELSE /\ wpath' = [wpath EXCEPT ![w] = Head(work_queue)]
          /\ work_queue' = Tail(work_queue)
          /\ wpc' = [wpc EXCEPT ![w] = IF use_cache THEN "lock" ELSE "parse"]
  /\ UNCHANGED <<diskVars, rendererVars, listingVars, backendVars, histVars, pc, use_cache, parallel, template_hash, cache,
                 cacheLock, metadata, category_info, metadata_for_nav, idx,
                 results, errors>>

\* main.rs 609: ctx.cache.lock()
WorkerLock(w) ==
  /\ wpc[w] = "lock"
  /\ cacheLock = 0
  /\ cacheLock' = w
  /\ wpc' = [wpc EXCEPT ![w] = "check"]
  /\ UNCHANGED <<diskVars, rendererVars, listingVars, backendVars, histVars, pc, use_cache, parallel, template_hash, cache,
                 metadata, category_info, metadata_for_nav, idx, work_queue,
                 results, errors, wpath>>

WorkerCheck_keeps_lock(w) ==
  /\ wpc[w] = "check"
  /\ cacheLock = w
  /\ IF ~needs_rebuild(cache, wpath[w], hash_file(files[wpath[w]]), template_hash)
     THEN /\ results' = Append(results, Skipped(wpath[w], "Cached"))
          /\ wpc' = [wpc EXCEPT ![w] = "recv"]
          /\ cacheLock' = 0
     ELSE /\ wpc' = [wpc EXCEPT ![w] = "parse"]
          /\ UNCHANGED <<results, cacheLock>>
  /\ UNCHANGED <<diskVars, rendererVars, listingVars, backendVars, histVars, pc, use_cache, parallel, template_hash, cache,
                 metadata, category_info, metadata_for_nav, idx, work_queue,
                 errors, wpath>>

\* main.rs 610-616: the needs-rebuild check; the guard is dropped at the end
\* of the block, on either branch.
WorkerCheck(w) ==
  /\ wpc[w] = "check"
  /\ cacheLock = w
  /\ cacheLock' = 0
  /\ IF ~needs_rebuild(cache, wpath[w], hash_file(files[wpath[w]]), template_hash)
     THEN /\ results' = Append(results, Skipped(wpath[w], "Cached"))
          /\ wpc' = [wpc EXCEPT ![w] = "recv"]
     ELSE /\ wpc' = [wpc EXCEPT ![w] = "parse"]
          /\ UNCHANGED results
  /\ UNCHANGED <<diskVars, rendererVars, listingVars, backendVars, histVars, pc, use_cache, parallel, template_hash, cache,
                 metadata, category_info, metadata_for_nav, idx, work_queue,
                 errors, wpath>>

WorkerParse_stops_on_error(w) ==
  /\ wpc[w] = "parse"
  /\ LET c == files[wpath[w]]
     IN IF ~ParseOk(c)
        THEN /\ results' = Append(results, Error(wpath[w]))
             /\ wpc' = [wpc EXCEPT ![w] = "exited"]
        ELSE IF parse_frontmatter(c).hidden
        THEN /\ results' = Append(results, Skipped(wpath[w], "Draft"))
             /\ wpc' = [wpc EXCEPT ![w] = "recv"]
        ELSE /\ wpc' = [wpc EXCEPT ![w] = "render"]
             /\ UNCHANGED results
  /\ UNCHANGED <<diskVars, rendererVars, listingVars, backendVars, histVars, pc, use_cache, parallel, template_hash, cache,
                 cacheLock, metadata, category_info, metadata_for_nav, idx,
                 work_queue, errors, wpath>>

\* main.rs 618-625: parse; an error or a hidden post ends the file here.
WorkerParse(w) ==
  /\ wpc[w] = "parse"
  /\ LET c == files[wpath[w]]
     IN IF ~ParseOk(c)
        THEN /\ results' = Append(results, Error(wpath[w]))
             /\ wpc' = [wpc EXCEPT ![w] = "recv"]
        ELSE IF parse_frontmatter(c).hidden
        THEN /\ results' = Append(results, Skipped(wpath[w], "Draft"))
             /\ wpc' = [wpc EXCEPT ![w] = "recv"]
        ELSE /\ wpc' = [wpc EXCEPT ![w] = "render"]
             /\ UNCHANGED results
  /\ UNCHANGED <<diskVars, rendererVars, listingVars, backendVars, histVars, pc, use_cache, parallel, template_hash, cache,
                 cacheLock, metadata, category_info, metadata_for_nav, idx,
                 work_queue, errors, wpath>>

\* main.rs 627-677 and 485-493: shortcodes, render, generate_post writes the
\* page, and the result is sent.
WorkerRender(w) ==
  /\ wpc[w] = "render"
  /\ LET p == wpath[w]
         c == files[p]
     IN IF ~RenderOk(c)
        THEN /\ results' = Append(results, Error(p))
             /\ UNCHANGED output
        ELSE /\ output' = [output EXCEPT ![p] = [content |-> c, tmpl |-> tmpl]]
             /\ results' = Append(results,
                   Success(p, parse_frontmatter(c), hash_file(c), template_hash))
  /\ wpc' = [wpc EXCEPT ![w] = "recv"]
  /\ UNCHANGED <<files, tmpl, diskCache, diskMeta, artifacts, category_yaml, rendererVars, listingVars, backendVars, histVars, pc, use_cache,
                 parallel, template_hash, cache, cacheLock, metadata,
                 category_info, metadata_for_nav, idx, work_queue, errors, wpath>>

(***************************************************************************)
(* build_all_parallel: collecting and merging (main.rs 498-544)            *)
(***************************************************************************)
\* main.rs 500-505: the receive loop ends when every worker has dropped its
\* sender; then the pool is joined.
CollectDone ==
  /\ pc = "collect"
  /\ AllExited
  /\ pc' = IF results = <<>> THEN "finish" ELSE "merge"
  /\ idx' = 1
  /\ UNCHANGED <<diskVars, rendererVars, listingVars, backendVars, workerVars, histVars, use_cache, parallel, template_hash,
                 cache, metadata, category_info, metadata_for_nav, results, errors>>

MergeCache_updates_every_result(entries, r, th) ==
  update_entry(entries, r.path, hash_file(files[r.path]), th, r.path)

\* main.rs 510-525: only a Success result updates the cache.
MergeCache(entries, r, th) ==
  IF r.kind = "Success"
  THEN update_entry(entries, r.path, r.file_hash, r.template_hash, r.output_path)
  ELSE entries

Merge_stops_at_first_error ==
  /\ pc = "merge"
  /\ idx <= Len(results)
  /\ cacheLock = 0
  /\ LET r == results[idx]
     IN /\ cache' = MergeCache(cache, r, template_hash)
        /\ metadata' = IF r.kind = "Success"
                       THEN upsert_post(metadata, path_to_slug(r.path),
                                        extract_category(r.path), r.frontmatter)
                       ELSE metadata
        /\ errors' = IF r.kind = "Error" THEN errors \cup {r.path} ELSE errors
        /\ IF idx = Len(results) \/ r.kind = "Error"
           THEN pc' = "finish" /\ idx' = idx
           ELSE pc' = pc /\ idx' = idx + 1
  /\ UNCHANGED <<diskVars, rendererVars, listingVars, backendVars, workerVars, histVars, use_cache, parallel, template_hash,
                 category_info, metadata_for_nav, results>>

\* main.rs 508-535: one iteration of the merge loop.
Merge ==
  /\ pc = "merge"
  /\ idx <= Len(results)
  /\ cacheLock = 0
  /\ LET r == results[idx]
     IN /\ cache' = MergeCache(cache, r, template_hash)
        /\ metadata' = IF r.kind = "Success"
                       THEN upsert_post(metadata, path_to_slug(r.path),
                                        extract_category(r.path), r.frontmatter)
                       ELSE metadata
        /\ errors' = IF r.kind = "Error" THEN errors \cup {r.path} ELSE errors
  /\ IF idx = Len(results)
     THEN pc' = "finish" /\ idx' = idx
     ELSE pc' = pc /\ idx' = idx + 1
  /\ UNCHANGED <<diskVars, rendererVars, listingVars, backendVars, workerVars, histVars, use_cache, parallel, template_hash,
                 category_info, metadata_for_nav, results>>

\* main.rs 537-544: with errors the build bails out before anything is
\* saved; otherwise the cache (incremental only) and the metadata are saved.
ParFinish ==
  /\ pc = "finish"
  /\ IF errors # {}
     THEN /\ pc' = "failed"
          /\ prev' = ThisBuild(FALSE)
          /\ UNCHANGED <<diskCache, diskMeta>>
     ELSE /\ pc' = "generate"
          /\ diskCache' = IF use_cache THEN cache ELSE diskCache
          /\ diskMeta' = metadata
          /\ UNCHANGED prev
  /\ UNCHANGED <<files, tmpl, output, artifacts, category_yaml, rendererVars, listingVars, backendVars, workerVars, edits, builds, use_cache,
                 parallel, template_hash, cache, metadata, category_info,
                 metadata_for_nav, idx, results, errors>>

(***************************************************************************)
(* build --post <path>: build_single_post (main.rs 680-734)                *)
(***************************************************************************)
\* A path given on the command line that names no file.
MissingPost == "nonexistent.md"

\* What stops build_single_post, in the order of its ? operators and bail:
\* Generator::new, the missing file, parse_file, shortcodes and render.
SinglePostFails(path) ==
  \/ ~GeneratorOk(tmpl)
  \/ path \notin Paths
  \/ ~ParseOk(files[path])
  \/ ~RenderOk(files[path])

BuildSinglePost_updates_cache(path) ==
  /\ Idle
  /\ builds < MaxBuilds
  /\ builds' = builds + 1
  /\ metadata' = diskMeta
  /\ IF SinglePostFails(path)
     THEN /\ results' = <<Error(path)>>
          /\ pc' = "post_failed"
          /\ UNCHANGED <<output, diskCache>>
     ELSE /\ output' = [output EXCEPT ![path] = [content |-> files[path], tmpl |-> tmpl]]
          /\ diskCache' = update_entry(diskCache, path, hash_file(files[path]),
                                       hash_directory(tmpl), path)
          /\ results' = <<Success(path, parse_frontmatter(files[path]),
                                  hash_file(files[path]), hash_directory(tmpl))>>
          /\ pc' = "post_done"
  /\ UNCHANGED <<files, tmpl, diskMeta, artifacts, category_yaml, rendererVars, listingVars, backendVars, workerVars,
                 edits, prev, use_cache, parallel, template_hash, cache, category_info,
                 metadata_for_nav, idx, errors>>

\* main.rs 680-734: the metadata is loaded for the page's navigation, a hidden
\* post is built like any other, the page is written, and nothing is saved.
BuildSinglePost(path) ==
  /\ Idle
  /\ builds < MaxBuilds
  /\ builds' = builds + 1
  /\ metadata' = diskMeta
  /\ IF SinglePostFails(path)
     THEN /\ results' = <<Error(path)>>
          /\ pc' = "post_failed"
          /\ UNCHANGED output
     ELSE /\ output' = [output EXCEPT ![path] = [content |-> files[path], tmpl |-> tmpl]]
          /\ results' = <<Success(path, parse_frontmatter(files[path]),
                                  hash_file(files[path]), hash_directory(tmpl))>>
          /\ pc' = "post_done"
  /\ UNCHANGED <<files, tmpl, diskCache, diskMeta, artifacts, category_yaml, rendererVars, listingVars, backendVars, workerVars,
                 edits, prev, use_cache, parallel, template_hash, cache, category_info,
                 metadata_for_nav, idx, errors>>

(***************************************************************************)
(* Specification                                                           *)
(***************************************************************************)
Next ==
  \/ EditFile
  \/ EditTemplate
  \/ \E uc \in BOOLEAN, par \in BOOLEAN : StartBuild(uc, par)
  \/ \E path \in Paths \cup {MissingPost} : BuildSinglePost(path)
  \/ PrePass
  \/ SeqStep
  \/ SeqSave
  \/ Generate
  \/ Spawn
  \/ \E w \in Workers : WorkerInit(w)
  \/ \E w \in Workers : WorkerRecv(w)
  \/ \E w \in Workers : WorkerLock(w)
  \/ \E w \in Workers : WorkerCheck(w)
  \/ \E w \in Workers : WorkerParse(w)
  \/ \E w \in Workers : WorkerRender(w)
  \/ CollectDone
  \/ Merge
  \/ ParFinish

Spec == Init /\ [][Next]_vars

(***************************************************************************)
(* Properties                                                              *)
(***************************************************************************)
\* The file itself makes its build fail.
FileFails(c) == ~ParseOk(c) \/ (~parse_frontmatter(c).hidden /\ ~RenderOk(c))

Collected == pc \in {"merge", "finish", "generate", "done", "failed"}
SomeError == \E i \in 1..Len(results) : results[i].kind = "Error"

\* C1: in a parallel build, once the results are collected and some file has
\* an Error outcome, every path has exactly one outcome, a file has the Error
\* outcome only if it fails itself, every file that does not fail is Success
\* or Skipped, and the build does not go on to complete successfully.
C1_ErrorIsolation ==
  (parallel /\ Collected /\ SomeError) =>
     /\ \A p \in Paths : Cardinality(ResultsOf(p)) = 1
     /\ \A p \in Paths : HasOutcome(p, "Error") => FileFails(files[p])
     /\ \A p \in Paths : ~FileFails(files[p]) =>
            HasOutcome(p, "Success") \/ HasOutcome(p, "Skipped")
     /\ pc \notin {"generate", "done"}

C1_Witness ==
  /\ parallel /\ pc = "failed" /\ errors # {}
  /\ \E p \in Paths : HasOutcome(p, "Success")
  /\ \E p \in Paths : HasOutcome(p, "Error")

\* C2: when a parallel incremental build has failed because of file errors,
\* the cache entry and the metadata of every file that succeeded in it are on
\* disk.
C2_PersistedOnFailure ==
  (parallel /\ use_cache /\ pc = "failed" /\ errors # {}) =>
     \A i \in 1..Len(results) :
        results[i].kind = "Success" =>
           /\ diskCache[results[i].path] # NoEntry
           /\ diskCache[results[i].path].file_hash = results[i].file_hash
           /\ HasPost(diskMeta, results[i].path)

InBuild == ~Idle

C4_TemplateChangeForcesRebuild ==
  /\ \A p \in Paths :
        (/\ GeneratorOk(tmpl)
         /\ diskCache[p] # NoEntry
         /\ diskCache[p].template_hash # hash_directory(tmpl)) =>
           needs_rebuild(diskCache, p, hash_file(files[p]), hash_directory(tmpl))
  /\ (InBuild /\ use_cache) =>
        \A p \in Paths : SkippedAs(p, "Cached") => cache[p].template_hash = template_hash

FileHashes == {hash_file(c) : c \in Contents}
TemplateHashes == {hash_directory(t) : t \in Templates}

\* C5: for the build's cache, needs_rebuild(path, h) is true iff the path has
\* no entry or its stored content fingerprint differs from h; after
\* update_entry(path, h, ...) needs_rebuild(path, h) is false, it is true for
\* every other fingerprint, and the entries of the other paths are unchanged.
C5_NeedsRebuildIff ==
  \A p \in Paths, h \in FileHashes, t \in TemplateHashes :
     /\ needs_rebuild(cache, p, h, t) <=>
           (cache[p] = NoEntry \/ cache[p].file_hash # h)
     /\ \A t2 \in TemplateHashes :
          LET updated == update_entry(cache, p, h, t2, p)
          IN /\ ~needs_rebuild(updated, p, h, t)
             /\ \A h2 \in FileHashes \ {h} : needs_rebuild(updated, p, h2, t)
             /\ \A q \in Paths \ {p} : updated[q] = cache[q]

C5_Witness ==
  /\ InBuild
  /\ \E p \in Paths :
        /\ HasOutcome(p, "Success")
        /\ cache[p] # NoEntry
        /\ ~needs_rebuild(cache, p, hash_file(files[p]), hash_directory(tmpl))
  /\ \E q \in Paths : cache[q] = NoEntry

\* The second of two consecutive incremental builds, the first successful,
\* is ending with this step.
SecondIncrementalEnds ==
  /\ InBuild /\ pc' \in {"done", "failed"}
  /\ use_cache /\ prev.ok /\ prev.incremental

SkippedCachedAtEnd(p) ==
  \E i \in 1..Len(results') :
     results'[i].path = p /\ results'[i].kind = "Skipped" /\ results'[i].reason = "Cached"

RebuiltAtEnd(p) ==
  /\ \E i \in 1..Len(results') : results'[i].path = p /\ results'[i].kind = "Success"
  /\ output'[p].content = files[p]

Listed(url) ==
  url \in (artifacts.sitemap_posts \cup artifacts.recent \cup artifacts.feed)

\* C7: when a build has completed, no post whose front matter says
\* hidden: true is in the sitemap, the feed or the recent-posts list.
C7_HiddenPostsExcluded ==
  pc = "done" =>
     \A p \in Paths :
        (ParseOk(files[p]) /\ parse_frontmatter(files[p]).hidden) => ~Listed(UrlOfPath(p))

\* C8: when a build has completed, the sitemap and the recent-posts list hold
\* neither the URL of a hidden category nor the URL of a post of a hidden
\* category.
C8_HiddenCategoriesExcluded ==
  pc = "done" =>
     \A i \in 1..Len(category_info) :
        category_info[i].hidden =>
           /\ category_info[i].slug \notin artifacts.sitemap_categories
           /\ \A p \in Paths :
                 extract_category(p) = category_info[i].slug =>
                    UrlOfPath(p) \notin (artifacts.sitemap_posts \cup artifacts.recent)

SomeRunning == \E w \in Workers : Running(w)

\* C9: whenever a worker exists, the snapshot it reads holds the current
\* front matter of every document that parses and is not hidden, and the
\* snapshot does not change while a worker runs.
C9_PrePassBeforeWorkers ==
  /\ [](SomeRunning =>
          \A p \in Paths :
             (ParseOk(files[p]) /\ ~parse_frontmatter(files[p]).hidden) =>
                \E i \in 1..Len(metadata_for_nav) :
                   /\ SameKey(metadata_for_nav[i], path_to_slug(p), extract_category(p))
                   /\ metadata_for_nav[i].frontmatter = parse_frontmatter(files[p]))
  /\ [][SomeRunning => metadata_for_nav' = metadata_for_nav]_vars

C9_Witness ==
  /\ \E w \in Workers : wpc[w] = "render"
  /\ Len(metadata_for_nav) >= 2
  /\ \E p \in Paths : ~ParseOk(files[p]) \/ parse_frontmatter(files[p]).hidden

ExpectedResult(entries, p, c, uc, th) ==
  IF uc /\ ~needs_rebuild(entries, p, hash_file(c), th) THEN Skipped(p, "Cached")
  ELSE IF ~ParseOk(c) THEN Error(p)
  ELSE IF parse_frontmatter(c).hidden THEN Skipped(p, "Draft")
  ELSE IF ~RenderOk(c) THEN Error(p)
  ELSE Success(p, parse_frontmatter(c), hash_file(c), th)

\* The cache and the metadata the build started from: nothing is persisted
\* before the merge loop has ended.
LoadedCache == IF use_cache THEN diskCache ELSE BuildCache_new
LoadedMetadata == IF use_cache THEN diskMeta ELSE <<>>

RECURSIVE PrePassFrom(_, _)
PrePassFrom(posts, i) ==
  IF i > Len(FilePaths) THEN posts
  ELSE PrePassFrom(PrePassUpsert(posts, FilePaths[i], files[FilePaths[i]]), i + 1)

\* The final cache entry of p as a function of the inputs alone.
ExpectedEntry(p) ==
  LET r == ExpectedResult(LoadedCache, p, files[p], use_cache, hash_directory(tmpl))
  IN IF GeneratorOk(tmpl) /\ r.kind = "Success"
     THEN [file_hash |-> r.file_hash, template_hash |-> r.template_hash,
           output_path |-> r.output_path]
     ELSE LoadedCache[p]

\* C11: when the merge loop of a parallel build has ended, the outcome of
\* every file, the cache entries and the metadata are what the inputs (the
\* corpus, the templates, the loaded cache and metadata) determine, whatever
\* the number of workers and the order in which the results arrived.
C11_ParallelDeterministic ==
  (parallel /\ pc = "finish") =>
     /\ \A p \in Paths :
          IF GeneratorOk(tmpl)
          THEN /\ Cardinality(ResultsOf(p)) = 1
               /\ \A i \in ResultsOf(p) :
                    results[i] = ExpectedResult(LoadedCache, p, files[p], use_cache,
                                                hash_directory(tmpl))
          ELSE ResultsOf(p) = {}
     /\ \A p \in Paths : cache[p] = ExpectedEntry(p)
     /\ metadata = PrePassFrom(LoadedMetadata, 1)
     /\ errors = {p \in Paths :
                    /\ GeneratorOk(tmpl)
                    /\ ExpectedResult(LoadedCache, p, files[p], use_cache,
                                      hash_directory(tmpl)).kind = "Error"}

\* Results out of corpus order, two workers having worked, with an error
\* reported before a success.
C11_Witness ==
  /\ parallel /\ pc = "finish"
  /\ Len(results) = Len(FilePaths)
  /\ results[1].path # FilePaths[1]
  /\ \E i, j \in 1..Len(results) :
        i < j /\ results[i].kind = "Error" /\ results[j].kind = "Success"

(***************************************************************************)
(* Termination of the parallel build                                       *)
(***************************************************************************)
\* The steps of the orchestrating thread of build_all_parallel.
Orchestrator ==
  PrePass \/ Spawn \/ CollectDone \/ Merge \/ ParFinish \/ Generate

\* The steps of worker w.
Worker(w) ==
  \/ WorkerInit(w) \/ WorkerRecv(w) \/ WorkerLock(w)
  \/ WorkerCheck(w) \/ WorkerParse(w) \/ WorkerRender(w)

\* A site whose template tree loads, or fails to load, when the command
\* starts.
InitParallel ==
  /\ InitBuild
  /\ NoListing
  /\ NoBackend
  /\ tmpl \in {1, BrokenTemplates}
  /\ category_yaml = CategoryYamlFixture
  /\ post_process = NoPostProcess
  /\ resolve = NoResolve

\* The parallel build command, run on working and on broken templates.
NextParallel ==
  \/ \E uc \in BOOLEAN : StartBuild(uc, TRUE)
  \/ PrePass
  \/ Spawn
  \/ \E w \in Workers : WorkerInit(w)
  \/ \E w \in Workers : WorkerRecv(w)
  \/ \E w \in Workers : WorkerLock(w)
  \/ \E w \in Workers : WorkerCheck(w)
  \/ \E w \in Workers : WorkerParse(w)
  \/ \E w \in Workers : WorkerRender(w)
  \/ CollectDone
  \/ Merge
  \/ ParFinish
  \/ Generate

\* Every thread that can take a step is eventually scheduled: the main
\* thread and each spawned worker are operating-system threads.
FairParallelSpec ==
  /\ InitParallel
  /\ [][NextParallel]_vars
  /\ WF_vars(Orchestrator)
  /\ \A w \in Workers : WF_vars(Worker(w))

\* C12: a parallel build that has started always ends, with success or with
\* failure, whether or not the workers could create their Generator.
C12_ParallelTerminates ==
  (parallel /\ InBuild) ~> Idle

\* A parallel build has ended although no worker could initialise.
C12_Witness ==
  /\ parallel /\ pc = "failed"
  /\ ~GeneratorOk(tmpl)
  /\ results = <<>>
  /\ \E w \in Workers : wpc[w] = "exited"

(***************************************************************************)
(* upsert_post on its own                                                  *)
(***************************************************************************)
MaxPosts == 3

\* Posts of two categories whose files have the same names.
UpsertSlugs == {"a", "b"}
UpsertCategories == {"dev", "work"}
UpsertFrontmatters == {parse_frontmatter(Visible1), parse_frontmatter(Visible2)}

\* main.rs 251, 424 and 514: a call of metadata.upsert_post.
UpsertCall ==
  /\ Len(metadata) < MaxPosts
  /\ \E slug \in UpsertSlugs, category \in UpsertCategories, fm \in UpsertFrontmatters :
       metadata' = upsert_post(metadata, slug, category, fm)
  /\ UNCHANGED <<diskVars, rendererVars, listingVars, backendVars, workerVars, histVars, pc, use_cache, parallel,
                 template_hash, cache, category_info, metadata_for_nav, idx,
                 results, errors>>

UpsertSpec == Init /\ [][UpsertCall]_vars

\* The upsert of a post that is present has just been made.
UpsertOfPresent(slug, category) ==
  /\ \E i \in 1..Len(metadata) : SameKey(metadata[i], slug, category)
  /\ \E fm \in UpsertFrontmatters : metadata' = upsert_post(metadata, slug, category, fm)

InitCategories ==
  /\ InitBuild
  /\ NoListing
  /\ NoBackend
  /\ tmpl = 1
  /\ category_yaml \in [CategoryDirSet -> YamlValues]
  /\ post_process = NoPostProcess
  /\ resolve = NoResolve

\* category.rs 7-17: discover_categories(content_dir).
DiscoverCategories ==
  /\ category_info = <<>>
  /\ category_info' = discover_categories(CategoryDirs, category_yaml)
  /\ UNCHANGED <<diskVars, rendererVars, listingVars, backendVars, workerVars, histVars, pc, use_cache, parallel,
                 template_hash, cache, metadata, metadata_for_nav, idx,
                 results, errors>>

CategorySpec == InitCategories /\ [][DiscoverCategories]_vars

\* The categories above c, at any depth.
RECURSIVE Ancestors(_)
Ancestors(c) ==
  IF ParentOf(c) = "" THEN {} ELSE {ParentOf(c)} \cup Ancestors(ParentOf(c))

HiddenIn(info, c) == \E i \in 1..Len(info) : info[i].slug = c /\ info[i].hidden

\* C14: after discover_categories a category is hidden if one of its
\* ancestors is hidden, whatever its own .category.yaml says or whether it has
\* one, and it is hidden only if itself or one of its ancestors is declared
\* hidden: never because of a child or a sibling.
C14_HiddenInherited ==
  category_info # <<>> =>
     \A c \in CategoryDirSet :
        /\ (\E a \in Ancestors(c) : HiddenIn(category_info, a)) => HiddenIn(category_info, c)
        /\ HiddenIn(category_info, c) <=>
              \E a \in {c} \cup Ancestors(c) : DeclaredHidden(category_yaml, a)

\* A hidden grandparent, a parent that says hidden: false and a grandchild
\* without a .category.yaml: the grandchild is hidden, the unrelated
\* top-level category is not.
C14_Witness ==
  /\ category_info # <<>>
  /\ category_yaml["work"] = "true"
  /\ category_yaml["work/apps"] = "false"
  /\ category_yaml["work/apps/ios"] = "absent"
  /\ HiddenIn(category_info, "work/apps/ios")
  /\ ~HiddenIn(category_info, "dev")

(***************************************************************************)
(* The single-post build                                                   *)
(***************************************************************************)
\* This step is a whole run of build --post.
SinglePostRuns == builds' = builds + 1 /\ pc' \in {"post_done", "post_failed"}

\* C15: a run of build --post <path> changes neither the persisted cache nor
\* the persisted metadata nor the listings, touches no page but that of
\* <path>, fails without writing anything when the file is missing or the
\* templates, the parse or the render fail, and otherwise writes the page of
\* <path> from its current content.
C15_SinglePostFrame ==
  [][ SinglePostRuns =>
        LET path == results'[1].path
        IN /\ Len(results') = 1
           /\ diskCache' = diskCache /\ diskMeta' = diskMeta /\ artifacts' = artifacts
           /\ \A q \in Paths \ {path} : output'[q] = output[q]
           /\ IF SinglePostFails(path)
              THEN pc' = "post_failed" /\ output' = output
              ELSE /\ pc' = "post_done"
                   /\ output'[path] = [content |-> files[path], tmpl |-> tmpl]
    ]_vars

\* After an incremental build and an edit, the edited post alone has been
\* rebuilt by build --post: its page is new, its cache entry is the old one.
C15_Witness ==
  /\ pc = "post_done"
  /\ diskMeta # <<>>
  /\ \E p \in Paths :
        /\ results[1].path = p
        /\ diskCache[p] # NoEntry
        /\ diskCache[p].file_hash # hash_file(files[p])
        /\ output[p].content = files[p]

(***************************************************************************)
(* Errors in the sequential build                                          *)
(***************************************************************************)
\* C16: when a sequential full-corpus build has failed on a file's error,
\* every file that does not fail itself was still built or skipped, and its
\* page, when it was built, is written from its current content.
C16_SequentialErrorIsolated ==
  (~parallel /\ pc = "failed" /\ SomeError) =>
     \A p \in Paths :
        ~FileFails(files[p]) =>
           \/ HasOutcome(p, "Skipped")
           \/ HasOutcome(p, "Success") /\ output[p].content = files[p]

(***************************************************************************)
(* Renderer::resolve_path (src/src/renderer.rs 625-711)                    *)
(***************************************************************************)
\* Strings are sequences of characters.
StartsWith(s, prefix) ==
  Len(s) >= Len(prefix) /\ SubSeq(s, 1, Len(prefix)) = prefix
Drop(s, n) == SubSeq(s, n + 1, Len(s))

RECURSIVE trim_start_matches(_, _)
trim_start_matches(s, ch) ==
  IF s # <<>> /\ s[1] = ch THEN trim_start_matches(Tail(s), ch) ELSE s

RECURSIVE trim_end_matches(_, _)
trim_end_matches(s, ch) ==
  IF s # <<>> /\ s[Len(s)] = ch
  THEN trim_end_matches(SubSeq(s, 1, Len(s) - 1), ch) ELSE s

\* str::trim, the blank being the only whitespace of the alphabet.
trim(s) == trim_end_matches(trim_start_matches(s, " "), " ")

Str_http == <<"h", "t", "t", "p", ":", "/", "/">>
Str_https == <<"h", "t", "t", "p", "s", ":", "/", "/">>
Str_ftp == <<"f", "t", "p", ":", "/", "/">>
Str_data == <<"d", "a", "t", "a", ":">>
Str_mailto == <<"m", "a", "i", "l", "t", "o", ":">>
Str_dot_slash == <<".", "/">>
Str_dot_dot_slash == <<".", ".", "/">>

\* base_path.split('/').filter(|s| !s.is_empty()).collect()
RECURSIVE split_segments(_, _, _)
split_segments(s, current, parts) ==
  IF s = <<>> THEN (IF current = <<>> THEN parts ELSE Append(parts, current))
  ELSE IF s[1] = "/"
  THEN split_segments(Tail(s), <<>>, IF current = <<>> THEN parts ELSE Append(parts, current))
  ELSE split_segments(Tail(s), Append(current, s[1]), parts)

base_parts_of(base_path) == split_segments(base_path, <<>>, <<>>)

\* parts.join("/")
RECURSIVE join(_)
join(parts) ==
  IF parts = <<>> THEN <<>>
  ELSE IF Len(parts) = 1 THEN parts[1]
  ELSE parts[1] \o <<"/">> \o join(Tail(parts))

\* renderer.rs 649-651: while let Some(next) = relative_path.strip_prefix("./")
RECURSIVE strip_current_dirs(_)
strip_current_dirs(s) ==
  IF StartsWith(s, Str_dot_slash) THEN strip_current_dirs(Drop(s, 2)) ELSE s

\* renderer.rs 673-678: the number of leading "../".
RECURSIVE up_count_of(_)
up_count_of(s) ==
  IF StartsWith(s, Str_dot_dot_slash) THEN 1 + up_count_of(Drop(s, 3)) ELSE 0

remaining_base_pops_one(base_parts, up_count) ==
  IF base_parts = <<>> THEN <<>>
  ELSE SubSeq(base_parts, 1, Len(base_parts) - 1)

\* renderer.rs 680-684
remaining_base(base_parts, up_count) ==
  IF up_count >= Len(base_parts) THEN <<>>
  ELSE SubSeq(base_parts, 1, Len(base_parts) - up_count)

\* renderer.rs 646-668: the "./" branch.
resolve_current_dir(trimmed, base_path) ==
  LET relative_path ==
        trim_start_matches(strip_current_dirs(Drop(trimmed, 2)), "/")
  IN IF relative_path = <<>>
     THEN (IF base_path = <<>> THEN <<"/">> ELSE <<"/">> \o base_path)
     ELSE IF base_path = <<>> THEN <<"/">> \o relative_path
     ELSE <<"/">> \o base_path \o <<"/">> \o relative_path

\* renderer.rs 670-703: the "../" branch.
resolve_parent_dir(trimmed, base_path) ==
  LET up_count == up_count_of(trimmed)
      base == remaining_base(base_parts_of(base_path), up_count)
      remaining_path == trim_start_matches(Drop(trimmed, 3 * up_count), "/")
  IN IF base = <<>> /\ remaining_path = <<>> THEN <<"/">>
     ELSE <<"/">>
          \o (IF base # <<>>
              THEN join(base) \o (IF remaining_path # <<>> THEN <<"/">> ELSE <<>>)
              ELSE <<>>)
          \o remaining_path

\* renderer.rs 632-644: the references returned as they are.
is_passed_through(trimmed) ==
  \/ StartsWith(trimmed, Str_http)
  \/ StartsWith(trimmed, Str_https)
  \/ StartsWith(trimmed, <<"/", "/">>)
  \/ StartsWith(trimmed, <<"#">>)
  \/ StartsWith(trimmed, Str_data)
  \/ StartsWith(trimmed, Str_mailto)
  \/ StartsWith(trimmed, <<"/">>)

resolve_path(path, base_path) ==
  LET trimmed == trim(path)
  IN IF trimmed = <<>> THEN <<"/">>
     ELSE IF is_passed_through(trimmed) THEN trimmed
     ELSE IF StartsWith(trimmed, Str_dot_slash) THEN resolve_current_dir(trimmed, base_path)
     ELSE IF StartsWith(trimmed, Str_dot_dot_slash) THEN resolve_parent_dir(trimmed, base_path)
     ELSE IF base_path = <<>> THEN <<"/">> \o trim_start_matches(trimmed, "/")
     ELSE <<"/">> \o base_path \o <<"/">> \o trim_start_matches(trimmed, "/")

\* The pieces the paths are put together from, and the longest path.
MaxPieces == 3
PathPieces ==
  { Str_dot_dot_slash, Str_dot_slash, <<"/">>, <<"x">>, <<" ">>, <<"#">>,
    Str_http, Str_ftp, Str_data, Str_mailto }

RECURSIVE concat(_)
concat(pieces) == IF pieces = <<>> THEN <<>> ELSE pieces[1] \o concat(Tail(pieces))

PathInputs ==
  UNION { {concat(ps) : ps \in [1..n -> PathPieces]} : n \in 0..MaxPieces }

\* The categories a document is resolved against: "", a, a/b, a/b/c.
BasePaths ==
  { <<>>, <<"a">>, <<"a", "/", "b">>, <<"a", "/", "b", "/", "c">> }

InitResolve ==
  /\ InitBuild
  /\ NoListing
  /\ NoBackend
  /\ tmpl = 1
  /\ files = [p \in Paths |-> Visible1]
  /\ category_yaml = CategoryYamlFixture
  /\ post_process = NoPostProcess
  /\ \E path \in PathInputs, base_path \in BasePaths :
       resolve = [path |-> path, base_path |-> base_path, result |-> <<>>,
                  done |-> FALSE]

\* A call of Renderer::resolve_path(path, base_path).
ResolvePath ==
  /\ ~resolve.done
  /\ resolve' = [resolve EXCEPT !.result = resolve_path(resolve.path, resolve.base_path),
                                !.done = TRUE]
  /\ UNCHANGED <<diskVars, listingVars, backendVars, post_process, workerVars, histVars, pc, use_cache, parallel,
                 template_hash, cache, metadata, category_info, metadata_for_nav,
                 idx, results, errors>>

ResolveSpec == InitResolve /\ [][ResolvePath]_vars

Min(a, b) == IF a <= b THEN a ELSE b

\* C19: for a path that starts with k "../" (blanks around it aside),
\* resolve_path drops min(k, n) trailing segments of the n-segment base_path
\* and puts the rest of the path under what remains; with k >= n the result
\* is "/" followed by the rest; the result always starts with "/".
C19_ParentSegmentsPopped ==
  /\ resolve_path(<<".", ".", "/", "x">>, <<"a", "/", "b">>) = <<"/", "a", "/", "x">>
  /\ resolve_path(<<".", ".", "/", ".", ".", "/", "x">>, <<"a", "/", "b">>) = <<"/", "x">>
  /\ resolve_path(<<".", ".", "/", ".", ".", "/", ".", ".", "/", "x">>, <<"a">>) = <<"/", "x">>
  /\ resolve_path(<<".", ".", "/">>, <<"a">>) = <<"/">>
  /\ (resolve.done /\ StartsWith(trim(resolve.path), Str_dot_dot_slash)) =>
       LET t == trim(resolve.path)
           k == up_count_of(t)
           segments == base_parts_of(resolve.base_path)
           n == Len(segments)
           kept == SubSeq(segments, 1, n - Min(k, n))
           rest == trim_start_matches(Drop(t, 3 * k), "/")
       IN /\ k >= 1
          /\ resolve.result[1] = "/"
          /\ base_parts_of(Tail(resolve.result)) = kept \o base_parts_of(rest)
          /\ k >= n => resolve.result = <<"/">> \o rest
          /\ k < n => resolve.result =
                        <<"/">> \o join(kept) \o (IF rest = <<>> THEN <<>> ELSE <<"/">> \o rest)

\* Two "../" against a/b/c leave a, and three leave nothing.
C19_Witness ==
  /\ resolve.done
  /\ resolve.path = <<".", ".", "/", ".", ".", "/", "x">>
  /\ resolve.base_path = <<"a", "/", "b", "/", "c">>
  /\ resolve.result = <<"/", "a", "/", "x">>

\* The path begins with one of the URL schemes of the alphabet.
HasScheme(s) ==
  \E scheme \in {Str_http, Str_https, Str_ftp, Str_data, Str_mailto} :
     StartsWith(s, scheme)

\* C20: a path without blanks that has a scheme, or starts with "//", "#" or
\* "/", is returned as it is, whatever the base_path.
C20_AbsolutePassedThrough ==
  (/\ resolve.done
   /\ \A i \in 1..Len(resolve.path) : resolve.path[i] # " "
   /\ \/ HasScheme(resolve.path)
      \/ StartsWith(resolve.path, <<"#">>)
      \/ StartsWith(resolve.path, <<"/">>)) =>
     resolve.result = resolve.path

(***************************************************************************)
(* Renderer::post_process_components (src/src/renderer.rs 277-544)         *)
(***************************************************************************)
\* The HTML is a sequence of tokens: start tags, end tags, text, and the
\* output of a component template.  marker says where the text " data-md"
\* occurs in a start tag: as the attribute push_html_with_markers writes, in
\* the value of another attribute, or nowhere.
Token(kind, name, marker, selfclose, src) ==
  [kind |-> kind, name |-> name, marker |-> marker, selfclose |-> selfclose,
   src |-> src, content |-> <<>>]

P_md == Token("start", "p", "attr", FALSE, "none")
P_raw == Token("start", "p", "none", FALSE, "none")
P_val == Token("start", "p", "value", FALSE, "none")
P_end == Token("end", "p", "none", FALSE, "none")
IMG_md == Token("start", "img", "attr", TRUE, "relative")
IMG_raw == Token("start", "img", "none", TRUE, "relative")
IFRAME_raw == Token("start", "iframe", "none", FALSE, "relative")
IFRAME_end == Token("end", "iframe", "none", FALSE, "none")
TextToken == Token("text", "", "none", FALSE, "none")

Tokens ==
  {P_md, P_raw, P_val, P_end, IMG_md, IMG_raw, IFRAME_raw, IFRAME_end, TextToken}

\* The tags of COMPONENT_TAGS and of RAW_HTML_TAGS that the tokens use, in
\* the order of COMPONENT_TAGS.
COMPONENT_TAGS == <<"img", "p", "iframe">>
RAW_HTML_TAGS == {"iframe"}

\* renderer.rs 438-441
is_target_tag(t, tag_name) == t.kind = "start" /\ t.name = tag_name
has_md_marker(t) == t.marker \in {"attr", "value"}

\* The output of the component template for start tag t and its content.
Component(t, inner_content) ==
  [t EXCEPT !.kind = "component", !.content = inner_content]

\* renderer.rs 448-483: the content up to the balancing close tag is taken
\* off the input; next is the first token after it.
RECURSIVE collect_inner(_, _, _, _, _)
collect_inner(html, j, tag_name, depth, inner_content) ==
  IF j > Len(html) THEN [next |-> j, inner_content |-> inner_content]
  ELSE LET t == html[j]
       IN IF t.kind = "end" /\ t.name = tag_name
          THEN IF depth = 1
               THEN [next |-> j + 1, inner_content |-> inner_content]
               ELSE collect_inner(html, j + 1, tag_name, depth - 1,
                                  Append(inner_content, t))
          ELSE collect_inner(html, j + 1, tag_name,
                             IF is_target_tag(t, tag_name) THEN depth + 1 ELSE depth,
                             Append(inner_content, t))

\* renderer.rs 405-544: replace_tag from token i on; renders says whether
\* tera.render of the component template succeeds.
RECURSIVE replace_from(_, _, _, _, _)
replace_from(html, i, tag_name, renders, result) ==
  IF i > Len(html) THEN result
  ELSE LET t == html[i]
       IN IF is_target_tag(t, tag_name) /\ (has_md_marker(t) \/ tag_name \in RAW_HTML_TAGS)
          THEN LET taken == IF t.selfclose
                            THEN [next |-> i + 1, inner_content |-> <<>>]
                            ELSE collect_inner(html, i + 1, tag_name, 1, <<>>)
               IN replace_from(html, taken.next, tag_name, renders,
                     Append(result, IF renders THEN Component(t, taken.inner_content)
                                    ELSE t))
          ELSE replace_from(html, i + 1, tag_name, renders, Append(result, t))

replace_tag(html, tag_name, renders) == replace_from(html, 1, tag_name, renders, <<>>)

\* renderer.rs 321-403: the src of an unmarked raw media tag is resolved.
RECURSIVE resolve_raw_html_paths(_)
resolve_raw_html_paths(html) ==
  [i \in 1..Len(html) |->
     LET t == html[i]
     IN IF t.kind = "start" /\ ~has_md_marker(t) /\ t.name \in RAW_HTML_TAGS
           /\ t.src = "relative"
        THEN [t EXCEPT !.src = "resolved"]
        ELSE [t EXCEPT !.content = resolve_raw_html_paths(t.content)]]

\* renderer.rs 316-318: html.replace(" data-md", "")
RECURSIVE sanitize(_)
sanitize(html) ==
  [i \in 1..Len(html) |->
     LET t == html[i]
     IN IF t.kind = "start"
        THEN [t EXCEPT !.marker = CASE t.marker = "attr" -> "none"
                                    [] t.marker = "value" -> "stripped"
                                    [] OTHER -> t.marker]
        ELSE [t EXCEPT !.content = sanitize(t.content)]]

\* renderer.rs 293-309: the tags whose component template exists, in order.
RECURSIVE replace_tags(_, _, _)
replace_tags(html, k, components) ==
  IF k > Len(COMPONENT_TAGS) THEN html
  ELSE replace_tags(
         IF components[COMPONENT_TAGS[k]] = "absent" THEN html
         ELSE replace_tag(html, COMPONENT_TAGS[k], components[COMPONENT_TAGS[k]] = "renders"),
         k + 1, components)

post_process_components(html, components) ==
  sanitize(resolve_raw_html_paths(replace_tags(html, 1, components)))

\* The longest document, and the documents.
MaxTokens == 3
Documents == UNION { [1..n -> Tokens] : n \in 1..MaxTokens }

\* components/<tag>.html: absent, or present and rendering or failing.
TemplateStates == {"absent", "renders", "fails"}
ComponentTagSet == {COMPONENT_TAGS[k] : k \in 1..Len(COMPONENT_TAGS)}

InitPostProcess ==
  /\ InitBuild
  /\ NoListing
  /\ NoBackend
  /\ tmpl = 1
  /\ files = [p \in Paths |-> Visible1]
  /\ category_yaml = CategoryYamlFixture
  /\ resolve = NoResolve
  /\ \E html \in Documents, components \in [ComponentTagSet -> TemplateStates] :
       post_process = [html |-> html, components |-> components, result |-> <<>>,
                       done |-> FALSE]

\* A call of Renderer::post_process_components.
PostProcess ==
  /\ ~post_process.done
  /\ post_process' =
       [post_process EXCEPT
          !.result = post_process_components(post_process.html, post_process.components),
          !.done = TRUE]
  /\ UNCHANGED <<diskVars, listingVars, backendVars, resolve, workerVars, histVars, pc, use_cache, parallel,
                 template_hash, cache, metadata, category_info, metadata_for_nav,
                 idx, results, errors>>

PostProcessSpec == InitPostProcess /\ [][PostProcess]_vars

\* The tokens of the HTML, those inside component output included.
RECURSIVE TokensIn(_)
TokensIn(html) ==
  UNION { {html[i]} \cup TokensIn(html[i].content) : i \in 1..Len(html) }

\* The same start tag after the raw-HTML path resolution.
Resolved(t) == IF t.src = "relative" THEN [t EXCEPT !.src = "resolved"] ELSE t

\* C17: when no component template fails to render, no component output is
\* made from a start tag that lacks the marker text, and every start tag of
\* an allow-listed tag that lacks it is in the output with its attributes as
\* written (the later resolution of a relative media path aside).
C17_OnlyMarkedSubstituted ==
  (/\ post_process.done
   /\ \A tag \in ComponentTagSet : post_process.components[tag] # "fails") =>
     /\ \A c \in TokensIn(post_process.result) :
           c.kind = "component" => has_md_marker(c)
     /\ \A i \in 1..Len(post_process.html) :
           LET t == post_process.html[i]
           IN (t.kind = "start" /\ t.name \in ComponentTagSet /\ ~has_md_marker(t)) =>
                 \/ t \in TokensIn(post_process.result)
                 \/ Resolved(t) \in TokensIn(post_process.result)

\* C18: when the component template of a marked element fails to render and
\* no other template renders, the output is the document with its markers
\* removed: the start tag, the content and the end tag of the element are
\* all there (documents without raw media tags, which are handled apart).
C18_FailedRenderKeepsMarkup ==
  (/\ post_process.done
   /\ \A tag \in ComponentTagSet : post_process.components[tag] # "renders"
   /\ \A i \in 1..Len(post_process.html) :
         post_process.html[i].name \notin RAW_HTML_TAGS
   /\ \E i \in 1..Len(post_process.html) :
         /\ post_process.html[i].kind = "start"
         /\ post_process.html[i].marker = "attr"
         /\ post_process.components[post_process.html[i].name] = "fails") =>
     post_process.result = sanitize(post_process.html)

(***************************************************************************)
(* The category a document's URLs are resolved against                     *)
(* (src/src/renderer.rs 277-314, 376-403, 486-500)                         *)
(***************************************************************************)
\* The position of the last "/" of s, 0 when there is none.
RECURSIVE last_slash(_, _)
last_slash(s, i) ==
  IF i = 0 THEN 0 ELSE IF s[i] = "/" THEN i ELSE last_slash(s, i - 1)

\* base_path.rsplit_once('/').map(|(cat, _slug)| cat).unwrap_or(base_path)
rsplit_once_category(base_path) ==
  LET i == last_slash(base_path, Len(base_path))
  IN IF i = 0 THEN base_path ELSE SubSeq(base_path, 1, i - 1)

is_url_attribute(key) == key \in {"src", "href", "data", "poster", "srcset"}

\* The value replace_tag hands to the component template for attribute key.
component_attribute(key, value, category) ==
  IF is_url_attribute(key) THEN resolve_path(value, category) ELSE value

\* The value resolve_tag_urls leaves in attribute key of a raw HTML tag.
resolve_tag_urls(key, value, category) ==
  IF /\ key \in {"src", "poster", "data"}
     /\ StartsWith(value, Str_dot_slash) \/ StartsWith(value, Str_dot_dot_slash)
  THEN resolve_path(value, category)
  ELSE value

Str_dev == <<"d", "e", "v">>
Str_work == <<"w", "o", "r", "k">>
Str_work_apps == <<"w", "o", "r", "k", "/", "a", "p", "p", "s">>

\* post.category of the documents of the corpus (Categories), as strings.
PostCategories == {Str_dev, Str_work, Str_work_apps}

\* The attributes a tag of the document carries.
AttributeKeys == {"src", "href", "poster", "alt"}

\* A substituted element ("component") or an unmarked media tag ("raw").
TagKinds == {"component", "raw"}

InitTagUrl ==
  /\ InitBuild
  /\ NoListing
  /\ NoBackend
  /\ tmpl = 1
  /\ files = [p \in Paths |-> Visible1]
  /\ category_yaml = CategoryYamlFixture
  /\ post_process = NoPostProcess
  /\ \E tag \in TagKinds, key \in AttributeKeys, path \in PathInputs,
        base_path \in PostCategories :
       resolve = [tag |-> tag, key |-> key, path |-> path,
                  base_path |-> base_path, result |-> <<>>, done |-> FALSE]

\* post_process_components(html, tera, base_path = post.category, ..) on a
\* document whose one tag is substituted by its component template.
RenderComponentTag ==
  /\ ~resolve.done
  /\ resolve.tag = "component"
  /\ LET category == rsplit_once_category(resolve.base_path)
     IN resolve' = [resolve EXCEPT
                      !.result = component_attribute(resolve.key, resolve.path, category),
                      !.done = TRUE]
  /\ UNCHANGED <<diskVars, listingVars, backendVars, post_process, workerVars, histVars, pc, use_cache, parallel,
                 template_hash, cache, metadata, category_info, metadata_for_nav,
                 idx, results, errors>>

\* The same call on a document whose one tag is an unmarked media tag.
RenderRawTag ==
  /\ ~resolve.done
  /\ resolve.tag = "raw"
  /\ LET category == rsplit_once_category(resolve.base_path)
     IN resolve' = [resolve EXCEPT
                      !.result = resolve_tag_urls(resolve.key, resolve.path, category),
                      !.done = TRUE]
  /\ UNCHANGED <<diskVars, listingVars, backendVars, post_process, workerVars, histVars, pc, use_cache, parallel,
                 template_hash, cache, metadata, category_info, metadata_for_nav,
                 idx, results, errors>>

TagUrlSpec == InitTagUrl /\ [][RenderComponentTag \/ RenderRawTag]_vars

\* C21: a "./name" value of a src, poster or data attribute, of a substituted
\* element as of an unmarked media tag, comes out as "/C/name" for the
\* document's whole category C, nested or not.
C21_ResolvedAgainstCategory ==
  (/\ resolve.done
   /\ resolve.key \in {"src", "poster", "data"}
   /\ resolve.path = Str_dot_slash \o <<"x">>) =>
     resolve.result = <<"/">> \o resolve.base_path \o <<"/", "x">>

(***************************************************************************)
(* Index pages and the sitemap (src/src/indices.rs 68-360,                 *)
(* crates/ssg/src/sitemap.rs 70-143)                                       *)
(***************************************************************************)
MaxIndexPosts == 3
MaxPerPage == 2

\* posts.sort_by(|a, b| b.frontmatter.date.cmp(&a.frontmatter.date)): a
\* stable sort, newest first.
RECURSIVE insert_by_date(_, _)
insert_by_date(sorted, m) ==
  IF sorted = <<>> THEN <<m>>
  ELSE IF Head(sorted).date >= m.date
       THEN <<Head(sorted)>> \o insert_by_date(Tail(sorted), m)
       ELSE <<m>> \o sorted

RECURSIVE sort_by_date_desc(_)
sort_by_date_desc(posts) ==
  IF posts = <<>> THEN <<>>
  ELSE insert_by_date(sort_by_date_desc(SubSeq(posts, 1, Len(posts) - 1)),
                      posts[Len(posts)])

\* MetadataCache::get_posts_by_category_tree: the posts of the category and
\* of its descendant categories.
get_posts_by_category_tree(posts, slug) ==
  SelectSeq(posts, LAMBDA m : m.category = slug \/ slug \in Ancestors(m.category))

\* MetadataCache::get_posts_by_tag
get_posts_by_tag(posts, tag) == SelectSeq(posts, LAMBDA m : tag \in m.tags)

\* MetadataCache::get_tags
get_tags(posts) == UNION {posts[i].tags : i \in 1..Len(posts)}

\* indices.rs 176-182 and 253-259
index_total_pages(total_posts, posts_per_page) ==
  IF total_posts = 0 THEN 1
  ELSE (total_posts + posts_per_page - 1) \div posts_per_page

\* sitemap.rs 91 and 131
sitemap_total_pages(post_count, posts_per_page) ==
  (post_count + posts_per_page - 1) \div posts_per_page

\* indices.rs 198-201: &posts[start_idx..end_idx]
page_posts(posts, page_num, posts_per_page) ==
  LET start_idx == (page_num - 1) * posts_per_page
      end_idx == Min(start_idx + posts_per_page, Len(posts))
  IN SubSeq(posts, start_idx + 1, end_idx)

\* The pages written below directory dir, a path of the output tree: page 1
\* is dir/index.html, page k is dir/page/k/index.html.
write_pages_every_page_numbered(dir, listed, posts_per_page) ==
  LET posts == sort_by_date_desc(listed)
  IN { [path |-> dir \o <<"page", page_num>>,
        posts |-> page_posts(posts, page_num, posts_per_page)] :
       page_num \in 1..index_total_pages(Len(posts), posts_per_page) }

write_pages(dir, listed, posts_per_page) ==
  LET posts == sort_by_date_desc(listed)
  IN { [path |-> IF page_num = 1 THEN dir ELSE dir \o <<"page", page_num>>,
        posts |-> page_posts(posts, page_num, posts_per_page)] :
       page_num \in 1..index_total_pages(Len(posts), posts_per_page) }

\* IndexGenerator::generate_category_page
generate_category_page(slug, posts, posts_per_page) ==
  write_pages(<<slug>>, get_posts_by_category_tree(posts, slug), posts_per_page)

\* IndexGenerator::generate_tag_page
generate_tag_page(tag, posts, posts_per_page) ==
  write_pages(<<"tag", tag>>, get_posts_by_tag(posts, tag), posts_per_page)

\* IndexGenerator::generate_all without the homepage: a page set for every
\* category and every tag, and the tags overview.
generate_all(posts, info, posts_per_page) ==
  UNION { generate_category_page(info[i].slug, posts, posts_per_page) :
          i \in 1..Len(info) }
  \cup UNION { generate_tag_page(tag, posts, posts_per_page) : tag \in get_tags(posts) }
  \cup { [path |-> <<"tags">>, posts |-> <<>>] }

\* SitemapGenerator::add_categories with its pagination URLs.
add_categories_urls(posts, info, posts_per_page) ==
  UNION { LET slug == info[i].slug
              post_count == Len(get_posts_by_category_tree(posts, slug))
          IN {<<slug>>} \cup
             { <<slug, "page", page>> :
               page \in 2..sitemap_total_pages(post_count, posts_per_page) } :
          i \in {j \in 1..Len(info) : ~info[j].hidden} }

\* SitemapGenerator::add_tags
add_tags(posts, posts_per_page) ==
  {<<"tags">>} \cup
  UNION { LET post_count == Len(get_posts_by_tag(posts, tag))
          IN {<<"tags", tag>>} \cup
             { <<"tags", tag, "page", page>> :
               page \in 2..sitemap_total_pages(post_count, posts_per_page) } :
          tag \in get_tags(posts) }

\* The posts of a Metadata Index: none of them hidden, in two categories,
\* with or without the one tag, on two dates.
IndexTags == {"rust"}
IndexDates == 1..2
IndexPostChoices ==
  [category : {"dev", "work/apps"}, date : IndexDates, tags : SUBSET IndexTags]
IndexPosts ==
  UNION { { [i \in 1..n |-> [slug |-> i, category |-> f[i].category,
                             date |-> f[i].date, tags |-> f[i].tags]] :
            f \in [1..n -> IndexPostChoices] } : n \in 0..MaxIndexPosts }

\* .category.yaml: work hidden, or no declaration at all.
InitIndices ==
  /\ InitBuild
  /\ NoBackend
  /\ tmpl = 1
  /\ files = [p \in Paths |-> Visible1]
  /\ category_yaml \in {CategoryYamlFixture, [c \in CategoryDirSet |-> "absent"]}
  /\ post_process = NoPostProcess
  /\ resolve = NoResolve
  /\ navigation = NoNavigation
  /\ pagination = NoPagination
  /\ \E posts \in IndexPosts, posts_per_page \in 1..MaxPerPage :
       indices = [posts |-> posts, posts_per_page |-> posts_per_page,
                  written |-> {}, sitemap |-> {}, done |-> FALSE]

\* The index pages and the sitemap of one build (main.rs 338-360).
GenerateIndices ==
  /\ ~indices.done
  /\ LET info == discover_categories(Categories, category_yaml)
     IN indices' = [indices EXCEPT
          !.written = generate_all(indices.posts, info, indices.posts_per_page),
          !.sitemap = add_categories_urls(indices.posts, info, indices.posts_per_page)
                        \cup add_tags(indices.posts, indices.posts_per_page),
          !.done = TRUE]
  /\ UNCHANGED <<diskVars, rendererVars, navigation, pagination, backendVars,
                 workerVars, histVars, pc, use_cache, parallel, template_hash,
                 cache, metadata, category_info, metadata_for_nav, idx, results,
                 errors>>

IndexSpec == InitIndices /\ [][GenerateIndices]_vars

\* ceil(n / p)
CeilDiv(n, p) == CHOOSE k \in 0..n : k * p >= n /\ (k = 0 \/ (k - 1) * p < n)

\* dir itself or dir/page/k
IsPageOf(path, dir) ==
  \/ path = dir
  \/ /\ Len(path) = Len(dir) + 2
     /\ SubSeq(path, 1, Len(dir)) = dir
     /\ path[Len(dir) + 1] = "page"

PageNumber(path, dir) == IF path = dir THEN 1 ELSE path[Len(dir) + 2]

WrittenPages(dir) == {w \in indices.written : IsPageOf(w.path, dir)}

\* The page numbers of the pagination URLs the sitemap lists below dir.
SitemapPages(dir) ==
  {PageNumber(u, dir) : u \in {v \in indices.sitemap : IsPageOf(v, dir) /\ v # dir}}

\* The posts of pages k..total below dir, one page after the other.
RECURSIVE PagesFrom(_, _, _)
PagesFrom(dir, k, total) ==
  IF k > total THEN <<>>
  ELSE (CHOOSE w \in WrittenPages(dir) : PageNumber(w.path, dir) = k).posts
       \o PagesFrom(dir, k + 1, total)

\* listed, newest first.
IsDateDescendingOf(sorted, listed) ==
  /\ Len(sorted) = Len(listed)
  /\ \A i \in 1..Len(listed) : \E j \in 1..Len(sorted) : sorted[j] = listed[i]
  /\ \A i, j \in 1..Len(sorted) : i < j => sorted[i].date >= sorted[j].date

\* The index pages below dir are the pages of the listing listed.
Paginated(dir, listed) ==
  LET p == indices.posts_per_page
      n == Len(listed)
      total == IF n = 0 THEN 1 ELSE CeilDiv(n, p)
  IN /\ Cardinality(WrittenPages(dir)) = total
     /\ {PageNumber(w.path, dir) : w \in WrittenPages(dir)} = 1..total
     /\ \E w \in WrittenPages(dir) : w.path = dir
     /\ IsDateDescendingOf(PagesFrom(dir, 1, total), listed)
     /\ \A w \in WrittenPages(dir) :
           PageNumber(w.path, dir) < total => Len(w.posts) = p

\* The sitemap lists the pagination pages 2..ceil(n/p) below dir.
SitemapPaginated(dir, listed) ==
  SitemapPages(dir) = 2..CeilDiv(Len(listed), indices.posts_per_page)

\* The original statement of C22: every category, hidden or not, and every
\* tag has its pages 2..ceil(n/p) in the sitemap.
C22_AsStated ==
  indices.done =>
    /\ \A c \in CategorySet :
          /\ Paginated(<<c>>, get_posts_by_category_tree(indices.posts, c))
          /\ SitemapPaginated(<<c>>, get_posts_by_category_tree(indices.posts, c))
    /\ \A tag \in get_tags(indices.posts) :
          /\ Paginated(<<"tag", tag>>, get_posts_by_tag(indices.posts, tag))
          /\ SitemapPaginated(<<"tags", tag>>, get_posts_by_tag(indices.posts, tag))

\* C22: a category or tag with n posts has ceil(n/p) index pages, one when
\* n = 0 (3 pages for n = 12 and p = 5); page 1 is the index and there is no
\* page/1; the pages hold consecutive slices of the newest-first list, every
\* page but the last with p posts; and for a tag and for a category that is
\* not hidden the sitemap lists exactly the pagination pages 2..ceil(n/p).
C22_Pagination ==
  /\ index_total_pages(12, 5) = 3
  /\ sitemap_total_pages(12, 5) = 3
  /\ indices.done =>
       LET info == discover_categories(Categories, category_yaml)
       IN /\ \A c \in CategorySet :
                LET listed == get_posts_by_category_tree(indices.posts, c)
                IN /\ Paginated(<<c>>, listed)
                   /\ ~HiddenIn(info, c) => SitemapPaginated(<<c>>, listed)
                   /\ HiddenIn(info, c) => SitemapPages(<<c>>) = {}
          /\ \A tag \in get_tags(indices.posts) :
                LET listed == get_posts_by_tag(indices.posts, tag)
                IN /\ Paginated(<<"tag", tag>>, listed)
                   /\ SitemapPaginated(<<"tags", tag>>, listed)

\* Three posts of dev at one post per page: the index and pages 2 and 3,
\* both in the sitemap.
C22_Witness ==
  /\ indices.done
  /\ indices.posts_per_page = 1
  /\ Len(get_posts_by_category_tree(indices.posts, "dev")) = 3
  /\ SitemapPages(<<"dev">>) = {2, 3}
  /\ Cardinality(WrittenPages(<<"dev">>)) = 3

\* C28: every category, tag and pagination URL of the sitemap is the path
\* of a page the index generator has written.
C28_SitemapUrlsAreWritten ==
  indices.done =>
    \A url \in indices.sitemap : \E w \in indices.written : w.path = url

(***************************************************************************)
(* build_post_navigation (crates/ssg/src/navigation.rs 90-119,             *)
(* src/src/navigation.rs 20-84)                                            *)
(***************************************************************************)
MaxNavPosts == 3

\* Option<PostLink>: None, or the link to a post.
NoLink == [slug |-> "", category |-> ""]
create_post_link(post) == [slug |-> post.slug, category |-> post.category]

\* posts.iter().position(|p| p.slug == current_slug), 0 for None.
position(posts, current_slug) ==
  IF \E i \in 1..Len(posts) : posts[i].slug = current_slug
  THEN CHOOSE i \in 1..Len(posts) :
         /\ posts[i].slug = current_slug
         /\ \A j \in 1..(i - 1) : posts[j].slug # current_slug
  ELSE 0

build_post_navigation(current_slug, current_category, metadata_posts, same_category) ==
  LET posts == sort_by_date_desc(
                 SelectSeq(metadata_posts,
                           LAMBDA p : ~same_category \/ p.category = current_category))
      index == position(posts, current_slug)
  IN IF index = 0 THEN [prev |-> NoLink, next |-> NoLink]
     ELSE [prev |-> IF index + 1 <= Len(posts)
                    THEN create_post_link(posts[index + 1]) ELSE NoLink,
           next |-> IF index > 1
                    THEN create_post_link(posts[index - 1]) ELSE NoLink]

\* The posts of a Metadata Index: at most one per slug and category.
NavSlugs == {"a", "b"}
NavCategories == {"dev", "work"}
NavDates == 1..3
NavPostChoices == [slug : NavSlugs, category : NavCategories, date : NavDates]
NavPosts ==
  UNION { { posts \in [1..n -> NavPostChoices] :
            \A i, j \in 1..n :
               (posts[i].slug = posts[j].slug /\ posts[i].category = posts[j].category)
                 => i = j } : n \in 0..MaxNavPosts }

InitNavigation ==
  /\ InitBuild
  /\ NoBackend
  /\ tmpl = 1
  /\ files = [p \in Paths |-> Visible1]
  /\ category_yaml = CategoryYamlFixture
  /\ post_process = NoPostProcess
  /\ resolve = NoResolve
  /\ indices = NoIndices
  /\ pagination = NoPagination
  /\ \E posts \in NavPosts, current_slug \in NavSlugs \cup {"missing"},
        current_category \in NavCategories, same_category \in BOOLEAN :
       navigation = [posts |-> posts, current_slug |-> current_slug,
                     current_category |-> current_category,
                     same_category |-> same_category,
                     prev |-> NoLink, next |-> NoLink, done |-> FALSE]

\* A call of build_post_navigation.
BuildPostNavigation ==
  /\ ~navigation.done
  /\ LET nav == build_post_navigation(navigation.current_slug,
                                      navigation.current_category,
                                      navigation.posts, navigation.same_category)
     IN navigation' = [navigation EXCEPT !.prev = nav.prev, !.next = nav.next,
                                         !.done = TRUE]
  /\ UNCHANGED <<diskVars, rendererVars, indices, pagination, backendVars,
                 workerVars, histVars, pc, use_cache, parallel, template_hash,
                 cache, metadata, category_info, metadata_for_nav, idx, results,
                 errors>>

NavigationSpec == InitNavigation /\ [][BuildPostNavigation]_vars

\* The candidates of the call, newest first.
NavCandidates ==
  sort_by_date_desc(
    SelectSeq(navigation.posts,
              LAMBDA p : ~navigation.same_category
                         \/ p.category = navigation.current_category))

DistinctDates(posts) ==
  \A i, j \in 1..Len(posts) : posts[i].date = posts[j].date => i = j

MaxTotalPosts == 6
MaxWindow == 3

\* The page numbers start_page..=end_page of the page links.
build_pagination_context(current_page, total_posts, posts_per_page, window) ==
  LET total_pages == IF total_posts = 0 THEN 1
                     ELSE (total_posts + posts_per_page - 1) \div posts_per_page
      half_window == window \div 2
      start_page == IF total_pages <= window THEN 1
                    ELSE IF current_page <= half_window + 1 THEN 1
                    ELSE IF current_page >= total_pages - half_window
                         THEN total_pages - window + 1
                    ELSE current_page - half_window
      end_page == IF total_pages <= window THEN total_pages
                  ELSE IF current_page <= half_window + 1 THEN window
                  ELSE IF current_page >= total_pages - half_window THEN total_pages
                  ELSE current_page + half_window
  IN [i \in 1..(end_page - start_page + 1) |-> start_page + i - 1]

\* The calls of generate_category_page and generate_tag_page: one for every
\* page of a listing of more than one page.
InitPagination ==
  /\ InitBuild
  /\ NoBackend
  /\ tmpl = 1
  /\ files = [p \in Paths |-> Visible1]
  /\ category_yaml = CategoryYamlFixture
  /\ post_process = NoPostProcess
  /\ resolve = NoResolve
  /\ indices = NoIndices
  /\ navigation = NoNavigation
  /\ \E total_posts \in 0..MaxTotalPosts, posts_per_page \in 1..MaxPerPage,
        window \in 1..MaxWindow :
       \E current_page \in 1..index_total_pages(total_posts, posts_per_page) :
          pagination = [current_page |-> current_page, total_posts |-> total_posts,
                        posts_per_page |-> posts_per_page, window |-> window,
                        pages |-> <<>>, done |-> FALSE]

BuildPaginationContext ==
  /\ ~pagination.done
  /\ pagination' = [pagination EXCEPT
       !.pages = build_pagination_context(pagination.current_page,
                   pagination.total_posts, pagination.posts_per_page,
                   pagination.window),
       !.done = TRUE]
  /\ UNCHANGED <<diskVars, rendererVars, indices, navigation, backendVars,
                 workerVars, histVars, pc, use_cache, parallel, template_hash,
                 cache, metadata, category_info, metadata_for_nav, idx, results,
                 errors>>

PaginationSpec == InitPagination /\ [][BuildPaginationContext]_vars

\* C24: at most pagination_window page links, consecutive page numbers
\* within 1..total_pages, the current page among them.
C24_WindowBounded ==
  pagination.done =>
    LET pages == pagination.pages
        total_pages == index_total_pages(pagination.total_posts,
                                         pagination.posts_per_page)
    IN /\ Len(pages) <= pagination.window
       /\ \A i \in 1..Len(pages) : pages[i] \in 1..total_pages
       /\ \A i \in 1..(Len(pages) - 1) : pages[i + 1] = pages[i] + 1
       /\ \E i \in 1..Len(pages) : pages[i] = pagination.current_page

(***************************************************************************)
(* Every path of a parallel build has one outcome                          *)
(***************************************************************************)
\* The workers that have received p and not yet sent its result.
Processing(p) ==
  {w \in Workers : wpc[w] \in {"lock", "check", "parse", "render"} /\ wpath[w] = p}

Enqueued(p) == {i \in 1..Len(work_queue) : work_queue[i] = p}

\* C25: while a parallel build runs a path is in the queue, with one worker,
\* or has one result, never two of these; and when the orchestrator has
\* collected the results every path has exactly one.
C25_EveryPathOneResult ==
  /\ (parallel /\ pc \in {"collect", "merge", "finish"}) =>
        \A p \in Paths :
           Cardinality(Enqueued(p)) + Cardinality(Processing(p))
             + Cardinality(ResultsOf(p)) <= 1
  /\ (parallel /\ pc \in {"merge", "finish"}) =>
        \A p \in Paths : Cardinality(ResultsOf(p)) = 1

(***************************************************************************)
(* What a skipped post has on disk                                         *)
(***************************************************************************)
\* C26: a post that an incremental build skips as unchanged has on disk the
\* page that was generated from its current content and the current
\* templates.
C26_SkippedOutputIsCurrent ==
  (InBuild /\ use_cache) =>
     \A p \in Paths :
        SkippedAs(p, "Cached") => output[p] = [content |-> files[p], tmpl |-> tmpl]

(***************************************************************************)
(* Posts removed from the corpus                                           *)
(***************************************************************************)
\* The author removes a source file; one file at least stays.
DeleteFile ==
  /\ Idle
  /\ edits < MaxEdits
  /\ \E p \in Paths :
       /\ files[p] # Deleted
       /\ \E q \in Paths \ {p} : files[q] # Deleted
       /\ files' = [files EXCEPT ![p] = Deleted]
  /\ edits' = edits + 1
  /\ pc' = "idle"
  /\ UNCHANGED <<tmpl, diskCache, diskMeta, output, artifacts, category_yaml,
                 rendererVars, listingVars, backendVars, use_cache, parallel,
                 template_hash, cache, cacheLock, metadata, category_info,
                 metadata_for_nav, idx, work_queue, results, errors, wpc, wpath,
                 builds, prev>>

\* Builds of a corpus that loses files.
NextDelete ==
  \/ DeleteFile
  \/ \E uc \in BOOLEAN, par \in BOOLEAN : StartBuild(uc, par)
  \/ PrePass
  \/ SeqStep
  \/ SeqSave
  \/ Generate
  \/ Spawn
  \/ \E w \in Workers : WorkerInit(w)
  \/ \E w \in Workers : WorkerRecv(w)
  \/ \E w \in Workers : WorkerLock(w)
  \/ \E w \in Workers : WorkerCheck(w)
  \/ \E w \in Workers : WorkerParse(w)
  \/ \E w \in Workers : WorkerRender(w)
  \/ CollectDone
  \/ Merge
  \/ ParFinish

DeleteSpec == Init /\ [][NextDelete]_vars

\* The post has a source file in the corpus, under its category.
InCorpus(m) ==
  \E p \in Paths :
     /\ files[p] # Deleted
     /\ path_to_slug(p) = m.slug
     /\ extract_category(p) = m.category

NoFileFails == GeneratorOk(tmpl) /\ \A p \in Paths : ~FileFails(files[p])

ExpectedKind(p) ==
  ExpectedResult(LoadedCache, p, files[p], use_cache, hash_directory(tmpl)).kind

MaxToggles == 2

LikePostSlugs == {"hello", "world"}
IpHashes == {"ip1"}
VisitorIds == {"v1", "v2"}

\* The filter of Like::toggle, which is also the document it inserts.
Identities == [postSlug : LikePostSlugs, ipHash : IpHashes, visitorId : VisitorIds]

\* collection.find_one(filter): is there a document with the three fields?
find_one(collection, filter) ==
  \E i \in 1..Len(collection) : collection[i] = filter

\* collection.delete_one(filter): removes the first matching document, if any.
delete_one(collection, filter) ==
  IF find_one(collection, filter)
    THEN LET i == CHOOSE k \in 1..Len(collection) :
                     /\ collection[k] = filter
                     /\ \A j \in 1..(k - 1) : collection[j] # filter
         IN  SubSeq(collection, 1, i - 1) \o SubSeq(collection, i + 1, Len(collection))
    ELSE collection

\* collection.insert_one(like): no unique index is declared on the collection.
insert_one(collection, like) == Append(collection, like)

\* collection.count_documents({postSlug}).
count_documents(collection, post_slug) ==
  Len(SelectSeq(collection, LAMBDA d : d.postSlug = post_slug))

\* A request at the start of Like::toggle.  `before` remembers whether the
\* identity was liked when the request arrived.
NewToggle(filter, collection) ==
  [filter |-> filter, pc |-> "find_one", existing |-> FALSE, liked |-> FALSE,
   count |-> 0, before |-> find_one(collection, filter)]

InitLikes ==
  /\ InitBuild
  /\ NoListing
  /\ tmpl = 1
  /\ files = [p \in Paths |-> Visible1]
  /\ category_yaml = CategoryYamlFixture
  /\ post_process = NoPostProcess
  /\ resolve = NoResolve
  /\ likes \in {<<>>} \cup {<<x>> : x \in Identities}
  /\ toggles = <<>>

LikeUnchanged ==
  UNCHANGED <<diskVars, rendererVars, listingVars, workerVars, histVars, pc,
              use_cache, parallel, template_hash, cache, metadata,
              category_info, metadata_for_nav, idx, results, errors>>

\* The handler `post` is entered: slug, address hash and visitor cookie make
\* the identity.
PostToggle(filter) ==
  /\ Len(toggles) < MaxToggles
  /\ toggles' = Append(toggles, NewToggle(filter, likes))
  /\ UNCHANGED likes
  /\ LikeUnchanged

\* let existing = collection.find_one(filter.clone()).await?;
FindOne(i) ==
  /\ toggles[i].pc = "find_one"
  /\ LET existing == find_one(likes, toggles[i].filter)
     IN  toggles' = [toggles EXCEPT ![i].existing = existing,
                       ![i].pc = IF existing THEN "delete_one" ELSE "insert_one"]
  /\ UNCHANGED likes
  /\ LikeUnchanged

\* collection.delete_one(filter).await?; false
DeleteOne(i) ==
  /\ toggles[i].pc = "delete_one"
  /\ likes' = delete_one(likes, toggles[i].filter)
  /\ toggles' = [toggles EXCEPT ![i].liked = FALSE, ![i].pc = "count_documents"]
  /\ LikeUnchanged

\* collection.insert_one(like).await?; true
InsertOne(i) ==
  /\ toggles[i].pc = "insert_one"
  /\ likes' = insert_one(likes, toggles[i].filter)
  /\ toggles' = [toggles EXCEPT ![i].liked = TRUE, ![i].pc = "count_documents"]
  /\ LikeUnchanged

\* let count = collection.count_documents(doc! { "postSlug": post_slug }).await?;
CountDocuments(i) ==
  /\ toggles[i].pc = "count_documents"
  /\ toggles' = [toggles EXCEPT
       ![i].count = count_documents(likes, toggles[i].filter.postSlug),
       ![i].pc = "done"]
  /\ UNCHANGED likes
  /\ LikeUnchanged

NextLikes ==
  \/ \E filter \in Identities : PostToggle(filter)
  \/ \E i \in 1..Len(toggles) : FindOne(i)
  \/ \E i \in 1..Len(toggles) : DeleteOne(i)
  \/ \E i \in 1..Len(toggles) : InsertOne(i)
  \/ \E i \in 1..Len(toggles) : CountDocuments(i)

LikeSpec == InitLikes /\ [][NextLikes]_vars

\* The documents of one identity.
DocumentsOf(x) == Len(SelectSeq(likes, LAMBDA d : d = x))

\* The requests made for one identity.
TogglesOf(x) == {i \in 1..Len(toggles) : toggles[i].filter = x}

\* C30: the collection holds at most one document per identity (postSlug,
\* ipHash, visitorId) whatever the interleaving of the requests, and when
\* exactly two toggles of an identity were made and both have completed, the
\* identity is liked if and only if it was liked before the first of them.
C30_OneDocumentPerIdentity ==
  /\ \A x \in Identities : DocumentsOf(x) <= 1
  /\ \A x \in Identities :
       \A i, j \in TogglesOf(x) :
          (/\ i < j
           /\ TogglesOf(x) = {i, j}
           /\ toggles[i].pc = "done"
           /\ toggles[j].pc = "done")
          => (find_one(likes, x) <=> toggles[i].before)

====
